---- MODULE Spec2Model ----
(***************************************************************************)
(* State-machine model of the power-monitoring repository:                 *)
(*   - PowerDataAPI.get_x1200_safe_data (dashboard_server.py): fuel-gauge  *)
(*     scan, calibration correction, external-power stabilisation;         *)
(*   - the same handler run by concurrent pollers (background monitor,     *)
(*     HTTP handlers, SSE stream) at attribute-access granularity;         *)
(*   - X1200EnhancedMonitor polling loop and event detector;               *)
(*   - X1200Monitor.detect_battery / get_status (x1200_common.py);         *)
(*   - X1200RuntimeEstimator.get_runtime_estimate (runtime_estimator.py).  *)
(*                                                                         *)
(* Numbers.  Python floats are modelled by exact scaled integers:          *)
(*   dashboard percentage : 1/256000 percent (register/256 * 1.327)        *)
(*   dashboard voltage    : 1/64 millivolt   (register * 1.25 / 16 mV)     *)
(*   monitor percentage   : 1/256 percent    (register / 256)              *)
(*   monitor voltage      : 1/4 millivolt    ((register >> 4) * 1.25 mV)   *)
(* An optional value (Python None) is the empty sequence, a present value  *)
(* x is <<x>>.                                                             *)
(***************************************************************************)
EXTENDS Integers, Sequences, FiniteSets, TLC

VARIABLES
    last_stable_battery,  \* PowerDataAPI._last_stable_battery
    out,                  \* what the last get_x1200_safe_data call returned
    thr,                  \* concurrent pollers: per-thread position and locals
    history,              \* enhanced monitor: main()'s history list
    prev_data,            \* enhanced monitor: main()'s prev_data
    events,               \* enhanced monitor: events of the last poll
    mon,                  \* enhanced monitor: loop position, clock, polls done
    connected,            \* self.connected of the monitor / estimator object
    has_battery,          \* X1200Monitor.has_battery
    status,               \* X1200Monitor: position in get_status, last result
    est,                  \* X1200RuntimeEstimator: position, last result
    call                  \* the last direct call of a function: arguments, result

vars == <<last_stable_battery, out, thr, history, prev_data, events, mon,
          connected, has_battery, status, est, call>>

dashVars == <<last_stable_battery, out>>
raceVars == <<thr>>
monVars  == <<history, prev_data, events, mon>>
comVars  == <<connected, has_battery, status>>
estVars  == <<est, call>>

----------------------------------------------------------------------------
(* Optional values and small helpers *)

None == <<>>
Some(x) == <<x>>
Val(o) == o[1]
Min(a, b) == IF a <= b THEN a ELSE b
Max(a, b) == IF a >= b THEN a ELSE b
Range(s) == { s[i] : i \in DOMAIN s }
\* Python truthiness of an optional number: None and 0 are falsy
Truthy(o) == o # None /\ Val(o) # 0
NoCallYet == [fn |-> "none"]

----------------------------------------------------------------------------
(* Bounds of the explored inputs *)

\* SOC register values offered to the dashboard poll: SocBase + i * SocStride
SocBase == 18560
SocStride == 128
MaxSocIdx == 6
\* VCELL register values offered to the dashboard poll: j * VcellStride
VcellStride == 16000
MaxVcellIdx == 3

\* Concurrent pollers of the one PowerDataAPI instance, and the SOC register
\* values offered to them: SocBase + 2 * i * SocStride
NumPollers == 2
MaxStreamSocIdx == 2
\* Polls each concurrent poller makes in the explored runs
MaxStreamPolls == 2

\* Iterations of the enhanced monitor's loop in the explored runs
MaxMonPolls == 3
\* Register values taken this far on each side of a detect_battery threshold
EdgeWidth == 1
\* Runtime estimator: SOC and voltage registers sampled, largest logged drop
EstSocStride == 1280
MaxEstSocIdx == 3
EstVcellStride == 112
MaxEstVcellIdx == 6
MaxLogDrop == 2
\* SOC register values handed to the calibration correction: i * stride
CorrectSocStride == 128
MaxCorrectSocIdx == 201
\* Runtimes handed to the formatter: i * FmtStride quarter minutes
FmtStride == 15
MaxFmtIdx == 400
\* Polls a logging loop is followed for when its history window is watched
MaxWindowPolls == 52

\* Servers in a configuration handed to a direct call of the registration
NumServers == 3

\* Calls of track_battery_runtime that are followed
MaxRuntimeCalls == 5

\* Minutes of clock time the alert manager is followed for, and alerts it may
\* send in that time
MaxMinutes == 6
MaxAlertsSent == 2

\* Longest history list handed to a direct call of the detector
MaxDetectHistory == 1

SocRegs == { SocBase + i * SocStride : i \in 0..MaxSocIdx }
VcellRegs == { j * VcellStride : j \in 1..MaxVcellIdx }

----------------------------------------------------------------------------
(* dashboard_server.py : PowerDataAPI.get_x1200_safe_data *)

PctScale == 256 * 1000       \* model units per percent
VoltScale == 64 * 1000       \* model units per volt
CorrectionFactorMilli == 1327

\* line 432: swapped * 1.25 / 1000 / 16 volts
FuelGaugeVoltage(swapped) == swapped * 5

\* (mutant) the correction without its clamp
CorrectedPercentage_NoClamp(swapped) == swapped * CorrectionFactorMilli

\* lines 439-441: min(100.0, swapped / 256 * 1.327)
CorrectedPercentage(swapped) ==
    Min(100 * PctScale, swapped * CorrectionFactorMilli)

\* lines 318-322 (X1200PowerMonitor.read_power_data, MAX17040G+ branch):
\* min(100.0, soc_raw / 256.0 * 1.327)
ReadPowerDataPercentage(soc_raw) ==
    Min(100 * PctScale, soc_raw * CorrectionFactorMilli)

\* raw percentages 0 .. 100 (and one step beyond) as SOC register values
CorrectSocRegs == {i * CorrectSocStride : i \in 0..MaxCorrectSocIdx}
CorrectFns == {"get_x1200_safe_data", "read_power_data"}

\* the correction applied to the register value drawn by InitCorrect
CorrectCall ==
    /\ call.fn \in CorrectFns
    /\ ~call.returned
    /\ call' = [call EXCEPT
                  !.returned = TRUE,
                  !.battery_percentage =
                      IF call.fn = "read_power_data"
                      THEN ReadPowerDataPercentage(call.soc)
                      ELSE CorrectedPercentage(call.soc)]
    /\ UNCHANGED <<dashVars, raceVars, monVars, comVars, est>>

\* The buses tried in order, line 422
FuelGaugeBuses == 3

\* One bus of the scan: "fail" raises before VCELL is read, "soc_fail" raises
\* at the SOC read (VCELL already assigned), "ok" reads both and breaks.
RECURSIVE ScanBuses(_, _, _, _, _)
ScanBuses(pattern, vcell, soc, i, acc) ==
    IF i > Len(pattern) THEN acc
    ELSE IF pattern[i] = "fail" THEN ScanBuses(pattern, vcell, soc, i + 1, acc)
    ELSE LET seen == [acc EXCEPT !.actual_battery_voltage =
                                      Some(FuelGaugeVoltage(vcell))]
         IN  IF pattern[i] = "soc_fail"
             THEN ScanBuses(pattern, vcell, soc, i + 1, seen)
             ELSE [seen EXCEPT !.battery_percentage =
                                   Some(CorrectedPercentage(soc)),
                               !.fuel_gauge_detected = TRUE]

\* lines 413-460
ReadFuelGauge(pattern, vcell, soc) ==
    ScanBuses(pattern, vcell, soc, 1,
              [actual_battery_voltage |-> None,
               battery_percentage |-> None,
               fuel_gauge_detected |-> FALSE])

\* lines 469-489: GPIO6 high = external power; when neither gpiod nor pinctrl
\* yields a level the default of line 469 stands
ExternalPowerPresent(gpio6) == gpio6 # "lo"

\* lines 514-516
HasBatteryInstalled(fg) ==
    /\ fg.fuel_gauge_detected
    /\ fg.actual_battery_voltage # None
    /\ Val(fg.actual_battery_voltage) > (5 * VoltScale) \div 2

\* Mutants of the stabilisation block (used to test the properties below)
StablePercentage_NoRateLimit(c, external, last) ==
    IF external /\ c # None /\ last # None
       /\ Val(c) < Val(last) - 1 * PctScale
    THEN last
    ELSE c

StablePercentage_DropsPassThrough(c, external, last) ==
    IF external /\ c # None /\ last # None
       /\ Val(c) > Val(last) + 2 * PctScale
    THEN Some(Val(last) + 1 * PctScale)
    ELSE c

\* every rise is answered by a step of 1.0
StablePercentage_StepsOnAnyRise(c, external, last) ==
    IF external /\ c # None /\ last # None
    THEN IF Val(c) > Val(last)
         THEN Some(Val(last) + 1 * PctScale)
         ELSE IF Val(c) < Val(last) - 1 * PctScale
              THEN last
              ELSE c
    ELSE c

\* falls of up to 2.0 are let through
StablePercentage_FallsUpToTwo(c, external, last) ==
    IF external /\ c # None /\ last # None
    THEN IF Val(c) > Val(last) + 2 * PctScale
         THEN Some(Val(last) + 1 * PctScale)
         ELSE IF Val(c) < Val(last) - 2 * PctScale
              THEN last
              ELSE c
    ELSE c

\* lines 543-561: the stable percentage shown for corrected percentage c
\* (optional), given external power and the remembered value (optional)
StablePercentage(c, external, last) ==
    IF external /\ c # None
    THEN IF last # None
         THEN IF Val(c) > Val(last) + 2 * PctScale
              THEN Some(Val(last) + 1 * PctScale)
              ELSE IF Val(c) < Val(last) - 1 * PctScale
                   THEN last
                   ELSE c
         ELSE c
    ELSE c

NextLastStable_KeepsMemory(c, external, last) ==
    IF external /\ c # None
    THEN StablePercentage(c, external, last)
    ELSE last

\* lines 557 and 561: what the call leaves in _last_stable_battery
NextLastStable(c, external, last) ==
    IF external /\ c # None
    THEN StablePercentage(c, external, last)
    ELSE None

\* line 565 / 579: actual_battery_voltage if actual_battery_voltage else 0.0
\* (the record always carries a number there, never None)
ReportedVoltage(v) == IF v # None /\ Val(v) # 0 THEN Some(Val(v)) ELSE Some(0)

NoCall == [returned |-> "nothing", battery_voltage |-> None,
           battery_percentage |-> None, has_external_power |-> FALSE,
           has_battery_installed |-> FALSE, fuel_gauge_detected |-> FALSE,
           voltage_read |-> None, corrected |-> None, previous |-> None]

\* The whole call with a working vcgencmd
SafeData(pattern, vcell, soc, gpio6) ==
    \E fg \in {ReadFuelGauge(pattern, vcell, soc)},
       external \in {ExternalPowerPresent(gpio6)} :
        /\ out' = [returned |-> "dict",
                   battery_voltage |-> ReportedVoltage(fg.actual_battery_voltage),
                   battery_percentage |->
                       StablePercentage(fg.battery_percentage, external,
                                        last_stable_battery),
                   has_external_power |-> external,
                   has_battery_installed |-> HasBatteryInstalled(fg),
                   fuel_gauge_detected |-> fg.fuel_gauge_detected,
                   voltage_read |-> fg.actual_battery_voltage,
                   corrected |-> fg.battery_percentage,
                   previous |-> last_stable_battery]
        /\ last_stable_battery' =
               NextLastStable(fg.battery_percentage, external,
                              last_stable_battery)

BusPatterns == [1..FuelGaugeBuses -> {"fail", "soc_fail", "ok"}]

GetX1200SafeData ==
    /\ \E pattern \in BusPatterns, vcell \in VcellRegs, soc \in SocRegs,
          gpio6 \in {"hi", "lo", "unreadable"} :
          SafeData(pattern, vcell, soc, gpio6)
    /\ UNCHANGED <<raceVars, monVars, comVars, estVars>>

\* lines 392-393 raise (vcgencmd missing or timed out): caught at line 584,
\* the call returns None before the stabilisation block is reached
GetX1200SafeDataRaises ==
    /\ out' = [NoCall EXCEPT !.returned = "None",
                             !.previous = last_stable_battery]
    /\ UNCHANGED <<last_stable_battery, raceVars, monVars, comVars, estVars>>

----------------------------------------------------------------------------
(* dashboard_server.py : get_x1200_safe_data run by concurrent pollers.     *)
(* power_api is one module-level instance (line 1290); it is polled by the  *)
(* BackgroundMonitor thread (line 1322), by the main thread (line 2775), by *)
(* request handlers (line 1737) and by SSE generators (line 1763), and no   *)
(* lock guards it.  One step is one access to self._last_stable_battery.    *)

Pollers == 1..NumPollers
StreamSocRegs == { SocBase + 2 * i * SocStride : i \in 0..MaxStreamSocIdx }

IdlePoller == [pc |-> "idle", bp |-> None, external |-> FALSE,
               stable |-> None, returned |-> "nothing", polls |-> 0]

\* the poller back at rest after a call that returned `returned`
PollerDone(t, returned) ==
    [IdlePoller EXCEPT !.returned = returned, !.polls = thr[t].polls]

\* lines 387-538 and 543-544: the poll reads the hardware into its locals and
\* takes the branch of line 544
PollerRead(t) ==
    /\ thr[t].pc = "idle"
    /\ thr[t].polls < MaxStreamPolls
    /\ \E fg \in { ReadFuelGauge(pattern, vcell, soc) :
                        pattern \in BusPatterns, vcell \in VcellRegs,
                        soc \in StreamSocRegs },
          gpio6 \in {"hi", "lo", "unreadable"} :
          LET external == ExternalPowerPresent(gpio6)
              bp == fg.battery_percentage
          IN  thr' = [thr EXCEPT ![t] =
                        [pc |-> IF external /\ bp # None THEN "l547" ELSE "l561",
                         bp |-> bp, external |-> external,
                         stable |-> bp, returned |-> "nothing",
                         polls |-> thr[t].polls + 1]]
    /\ UNCHANGED <<dashVars, monVars, comVars, estVars>>

\* lines 392-393 raise: the call returns None at line 586
PollerReadRaises(t) ==
    /\ thr[t].pc = "idle"
    /\ thr[t].polls < MaxStreamPolls
    /\ thr' = [thr EXCEPT ![t] =
                  [PollerDone(t, "None") EXCEPT !.polls = thr[t].polls + 1]]
    /\ UNCHANGED <<dashVars, monVars, comVars, estVars>>

\* an arithmetic on None raises TypeError, caught at line 584
PollerAborts(t) == PollerDone(t, "TypeError")

\* line 547: hasattr(...) and self._last_stable_battery is not None
Poller547(t) ==
    /\ thr[t].pc = "l547"
    /\ thr' = [thr EXCEPT ![t].pc =
                  IF last_stable_battery # None THEN "l549" ELSE "l557"]
    /\ UNCHANGED <<dashVars, monVars, comVars, estVars>>

\* line 549: battery_percentage > self._last_stable_battery + 2
Poller549(t) ==
    /\ thr[t].pc = "l549"
    /\ thr' = [thr EXCEPT ![t] =
                  IF last_stable_battery = None THEN PollerAborts(t)
                  ELSE [@ EXCEPT !.pc =
                          IF Val(thr[t].bp) > Val(last_stable_battery) + 2 * PctScale
                          THEN "l550" ELSE "l551"]]
    /\ UNCHANGED <<dashVars, monVars, comVars, estVars>>

\* line 550: stable_battery_percentage = self._last_stable_battery + 1
Poller550(t) ==
    /\ thr[t].pc = "l550"
    /\ thr' = [thr EXCEPT ![t] =
                  IF last_stable_battery = None THEN PollerAborts(t)
                  ELSE [@ EXCEPT !.pc = "l557",
                                 !.stable = Some(Val(last_stable_battery)
                                                 + 1 * PctScale)]]
    /\ UNCHANGED <<dashVars, monVars, comVars, estVars>>

\* line 551: battery_percentage < self._last_stable_battery - 1, and line 554
Poller551(t) ==
    /\ thr[t].pc = "l551"
    /\ thr' = [thr EXCEPT ![t] =
                  IF last_stable_battery = None THEN PollerAborts(t)
                  ELSE IF Val(thr[t].bp) < Val(last_stable_battery) - 1 * PctScale
                       THEN [@ EXCEPT !.pc = "l552"]
                       ELSE [@ EXCEPT !.pc = "l557", !.stable = thr[t].bp]]
    /\ UNCHANGED <<dashVars, monVars, comVars, estVars>>

\* line 552: stable_battery_percentage = self._last_stable_battery
Poller552(t) ==
    /\ thr[t].pc = "l552"
    /\ thr' = [thr EXCEPT ![t].pc = "l557", ![t].stable = last_stable_battery]
    /\ UNCHANGED <<out, monVars, comVars, estVars, last_stable_battery>>

\* line 557: self._last_stable_battery = stable_battery_percentage; return
Poller557(t) ==
    /\ thr[t].pc = "l557"
    /\ last_stable_battery' = thr[t].stable
    /\ thr' = [thr EXCEPT ![t] = PollerDone(t, "dict")]
    /\ UNCHANGED <<out, monVars, comVars, estVars>>

\* lines 560-561: self._last_stable_battery = None; return
Poller561(t) ==
    /\ thr[t].pc = "l561"
    /\ last_stable_battery' = None
    /\ thr' = [thr EXCEPT ![t] = PollerDone(t, "dict")]
    /\ UNCHANGED <<out, monVars, comVars, estVars>>

\* C4: concurrent pollers serialise the read-compare-write of the remembered
\* stable percentage: the value a poll is about to store was derived from
\* the value the preceding poll stored (the one in the attribute now), and
\* no poll is broken by another poll writing in the middle of it.
C4_PollsSerialised ==
    \A t \in Pollers :
        /\ thr[t].pc = "l557" =>
               thr[t].stable =
                   StablePercentage(thr[t].bp, TRUE, last_stable_battery)
        /\ thr[t].returned # "TypeError"

----------------------------------------------------------------------------
(* x1200_enhanced_monitor.py : X1200EnhancedMonitor and main()              *)
(* percentage in 1/256 percent (the SOC register), voltage in 1/4 mV,       *)
(* current in 1/8 mA, time in seconds.                                      *)

HistoryCap == 50
PollInterval == 5

\* lines 90-96: (vcell >> 4) * 1.25 / 1000.0 volts
MonitorVoltage(vcell) ==
    IF vcell = None THEN None ELSE Some((Val(vcell) \div 16) * 5)

\* lines 98-104: soc / 256.0 percent
MonitorPercentage(soc) == IF soc = None THEN None ELSE Some(Val(soc))

\* lines 123-129: GPIO16 low = charging; None when the pin cannot be read
IsCharging(gpio16) == IF gpio16 = None THEN None ELSE Some(Val(gpio16) = 0)

\* lines 131-137: GPIO6 high = external power
HasExternalPower(gpio6) == IF gpio6 = None THEN None ELSE Some(Val(gpio6) = 1)

\* lines 149-164; raised: percentage - None is a TypeError
EstimateBatteryCurrent(voltage, percentage, prev, time_delta) ==
    IF prev = None \/ time_delta <= 0
    THEN [raised |-> FALSE, value |-> None]
    ELSE IF Val(prev).battery_percentage = None
         THEN [raised |-> TRUE, value |-> None]
         ELSE [raised |-> FALSE,
               value |-> Some(((percentage - Val(Val(prev).battery_percentage))
                               * 5625) \div time_delta)]

\* lines 166-187 (cpu_temp, load_avg and power_source feed only the log line)
GetComprehensiveData(vcell, soc, gpio16, gpio6, prev, now) ==
    LET voltage == MonitorVoltage(vcell)
        percentage == MonitorPercentage(soc)
        current ==
            IF prev # None /\ Truthy(voltage) /\ Truthy(percentage)
            THEN EstimateBatteryCurrent(Val(voltage), Val(percentage), prev,
                                        now - Val(prev).timestamp)
            ELSE [raised |-> FALSE, value |-> None]
    IN  [raised |-> current.raised,
         data |-> [timestamp |-> now,
                   battery_voltage |-> voltage,
                   battery_percentage |-> percentage,
                   is_charging |-> IsCharging(gpio16),
                   has_external_power |-> HasExternalPower(gpio6),
                   estimated_current |-> current.value]]

Ev(name) == [name |-> name, ma |-> 0]
When(cond, evs) == IF cond THEN evs ELSE <<>>
EventNames(evs) == { evs[i].name : i \in DOMAIN evs }

\* f"{abs(x):.0f}": x in 1/8 mA, rounded to the nearest mA, ties to even
RoundedAbsMa(x) ==
    LET a == IF x < 0 THEN -x ELSE x
        q == a \div 8
        r == a % 8
    IN  IF r < 4 THEN q
        ELSE IF r > 4 THEN q + 1
        ELSE IF q % 2 = 0 THEN q ELSE q + 1

\* lines 208-210
PowerLossEvents(data) ==
    When(data.has_external_power = Some(FALSE), <<Ev("POWER_LOSS_DETECTED")>>)

\* (mutant) charging events by level instead of by change
ChargingEvents_ByLevel(data, hist) ==
    When(Len(hist) > 0,
         IF data.is_charging = Some(TRUE)
         THEN <<Ev("CHARGING_STARTED")>>
         ELSE <<Ev("CHARGING_STOPPED")>>)

\* lines 213-219
ChargingEvents(data, hist) ==
    When(Len(hist) > 0 /\ hist[Len(hist)].is_charging # data.is_charging,
         IF data.is_charging = Some(TRUE)
         THEN <<Ev("CHARGING_STARTED")>>
         ELSE <<Ev("CHARGING_STOPPED")>>)

\* (mutant) without a preceding sample, external power is taken to have been
\* present before
ExternalPowerEvents_AssumesPowered(data, hist) ==
    LET before == IF Len(hist) > 0 THEN hist[Len(hist)].has_external_power
                  ELSE Some(TRUE)
    IN  When(before # data.has_external_power,
             IF data.has_external_power = Some(TRUE)
             THEN <<Ev("EXTERNAL_POWER_CONNECTED")>>
             ELSE <<Ev("EXTERNAL_POWER_LOST")>>)

\* lines 213-214, 221-225
ExternalPowerEvents(data, hist) ==
    When(Len(hist) > 0
           /\ hist[Len(hist)].has_external_power # data.has_external_power,
         IF data.has_external_power = Some(TRUE)
         THEN <<Ev("EXTERNAL_POWER_CONNECTED")>>
         ELSE <<Ev("EXTERNAL_POWER_LOST")>>)

\* (mutant) the two battery levels checked independently of each other
BatteryLevelEvents_BothLevels(data) ==
    When(data.battery_percentage # None,
         When(Val(data.battery_percentage) < 10 * 256,
              <<Ev("CRITICAL_BATTERY_LEVEL")>>)
           \o When(Val(data.battery_percentage) < 20 * 256,
                   <<Ev("LOW_BATTERY_WARNING")>>))

\* lines 228-232
BatteryLevelEvents(data) ==
    When(data.battery_percentage # None,
         IF Val(data.battery_percentage) < 10 * 256
         THEN <<Ev("CRITICAL_BATTERY_LEVEL")>>
         ELSE When(Val(data.battery_percentage) < 20 * 256,
                   <<Ev("LOW_BATTERY_WARNING")>>))

\* lines 235-239
VoltageEvents(data) ==
    When(data.battery_voltage # None,
         IF Val(data.battery_voltage) < 3000 * 4
         THEN <<Ev("CRITICAL_LOW_VOLTAGE")>>
         ELSE When(Val(data.battery_voltage) > 4300 * 4,
                   <<Ev("OVER_VOLTAGE_WARNING")>>))

\* (mutant) the discharge check fires at the threshold itself
DischargeEvents_AtThreshold(data) ==
    When(data.estimated_current # None
           /\ Val(data.estimated_current) <= -2000 * 8,
         <<[name |-> "HIGH_DISCHARGE_RATE",
            ma |-> RoundedAbsMa(Val(data.estimated_current))]>>)

\* lines 242-243
DischargeEvents(data) ==
    When(data.estimated_current # None
           /\ Val(data.estimated_current) < -2000 * 8,
         <<[name |-> "HIGH_DISCHARGE_RATE",
            ma |-> RoundedAbsMa(Val(data.estimated_current))]>>)

\* lines 204-245
DetectCriticalEvents(data, hist) ==
       PowerLossEvents(data)
    \o ChargingEvents(data, hist)
    \o ExternalPowerEvents(data, hist)
    \o BatteryLevelEvents(data)
    \o VoltageEvents(data)
    \o DischargeEvents(data)

\* (mutant) on overflow the newest sample is dropped
AppendHistory_EvictsNewest(hist, data) ==
    LET h == Append(hist, data)
    IN  IF Len(h) > HistoryCap THEN SubSeq(h, 1, HistoryCap) ELSE h

\* lines 288-290: history.append(data); if len(history) > 50: history.pop(0)
AppendHistory(hist, data) ==
    LET h == Append(hist, data)
    IN  IF Len(h) > HistoryCap THEN Tail(h) ELSE h

\* register and pin readings offered to the loop; None: the read failed
MonVcellReads == {None, Some(48640)}
MonSocReads == {None, Some(1280), Some(12800)}
MonGpioReads == {Some(0), Some(1)}

\* lines 280-345: one iteration of the loop of main()
MonitorPoll ==
    /\ mon.pc = "running"
    /\ mon.polls < MaxMonPolls
    /\ \E vcell \in MonVcellReads, soc \in MonSocReads,
          gpio16 \in MonGpioReads, gpio6 \in MonGpioReads :
          \E got \in {GetComprehensiveData(vcell, soc, gpio16, gpio6,
                                            prev_data, mon.now)} :
             IF got.raised
             THEN \* lines 351-352: except Exception: "Fatal error", loop left
                  /\ mon' = [mon EXCEPT !.pc = "fatal"]
                  /\ UNCHANGED <<history, prev_data, events>>
             ELSE /\ history' = AppendHistory(history, got.data)
                  /\ events' = DetectCriticalEvents(got.data, history')
                  /\ prev_data' = Some(got.data)
                  /\ mon' = [mon EXCEPT !.polls = @ + 1,
                                        !.now = @ + PollInterval]
    /\ UNCHANGED <<dashVars, raceVars, comVars, estVars>>

\* samples handed to a direct call of detect_critical_events
DetectCurrents == {None, Some(-16008), Some(-16000), Some(9000)}
DetectSamples ==
    [timestamp : {0},
     battery_voltage : {None, Some(11600), Some(12000), Some(15200),
                        Some(17200), Some(17600)},
     battery_percentage : {None, Some(1280), Some(2560), Some(3840),
                           Some(5120), Some(12800)},
     is_charging : {None, Some(TRUE), Some(FALSE)},
     has_external_power : {None, Some(TRUE), Some(FALSE)},
     estimated_current : DetectCurrents]
DetectHistorySamples ==
    [timestamp : {0}, battery_voltage : {Some(15200)},
     battery_percentage : {Some(1280), Some(12800)},
     is_charging : {None, Some(TRUE), Some(FALSE)},
     has_external_power : {None, Some(TRUE), Some(FALSE)},
     estimated_current : {None}]
RECURSIVE SeqsUpTo(_, _)
SeqsUpTo(S, n) ==
    IF n = 0 THEN {<<>>}
    ELSE LET shorter == SeqsUpTo(S, n - 1)
         IN  shorter \cup { Append(h, x) : h \in shorter, x \in S }

\* (mutant) the detector files the sample in the history it was handed
ArgumentsAfterDetect_Appends(data, hist) ==
    [data |-> data, history |-> Append(hist, data)]

\* lines 204-245: what the caller's two arguments hold once the call is over.
\* The body only reads them (subscripts, len, abs); its one list operation
\* is events.append, on the list it created at line 206.
ArgumentsAfterDetect(data, hist) == [data |-> data, history |-> hist]

\* a direct call detect_critical_events(data, history) on the arguments
\* drawn by InitDetect
DetectCall ==
    /\ call.fn = "detect_critical_events"
    /\ ~call.returned
    /\ \E after \in {ArgumentsAfterDetect(call.data, call.history)} :
          call' = [call EXCEPT !.returned = TRUE,
                               !.events = DetectCriticalEvents(call.data,
                                                               call.history),
                               !.data = after.data,
                               !.history = after.history]
    /\ UNCHANGED <<dashVars, raceVars, monVars, comVars, est>>

\* the same call once more, on the same two objects as the first call left
\* them
DetectCallAgain ==
    /\ call.fn = "detect_critical_events"
    /\ call.returned
    /\ ~call.again
    /\ \E after \in {ArgumentsAfterDetect(call.data, call.history)} :
          call' = [call EXCEPT !.again = TRUE,
                               !.events_again =
                                   DetectCriticalEvents(call.data,
                                                        call.history),
                               !.data = after.data,
                               !.history = after.history]
    /\ UNCHANGED <<dashVars, raceVars, monVars, comVars, est>>

----------------------------------------------------------------------------
(* The history windows of the three logging loops: the enhanced monitor     *)
(* (x1200_enhanced_monitor.py), the battery logger (x1200_battery_logger.py) *)
(* and the system logger (system_power_logger.py).  Here a sample is         *)
(* represented by its arrival number; the detectors only read the window.   *)

\* x1200_battery_logger.py line 209 and system_power_logger.py line 188
BatteryLoggerHistoryCap == 50
SystemLoggerHistoryCap == 20

\* x1200_battery_logger.py lines 208-210
BatteryLoggerAppend(hist, data) ==
    LET h == Append(hist, data)
    IN  IF Len(h) > BatteryLoggerHistoryCap THEN Tail(h) ELSE h

\* system_power_logger.py lines 185-189
SystemLoggerAppend(hist, data) ==
    LET h == Append(hist, data)
    IN  IF Len(h) > SystemLoggerHistoryCap THEN Tail(h) ELSE h

WindowPrograms == {"enhanced", "battery", "system"}

WindowCap(program) ==
    IF program = "enhanced" THEN HistoryCap
    ELSE IF program = "battery" THEN BatteryLoggerHistoryCap
    ELSE SystemLoggerHistoryCap

\* what one pass of a loop can meet: a sample, no sample (the battery logger's
\* get_power_data returned None), or an exception that ends the loop
WindowOutcomes(program) ==
    IF program = "battery" THEN {"sample", "none", "raised"}
    ELSE {"sample", "raised"}

WindowRunning(program) ==
    /\ mon.pc = "window"
    /\ mon.program = program
    /\ mon.polls < MaxWindowPolls

\* the loop is left by its except clause; the window stays as it is
WindowLeft == mon' = [mon EXCEPT !.pc = "stopped"] /\ UNCHANGED history

\* x1200_enhanced_monitor.py lines 280-345, one pass of the loop
EnhancedWindowPoll ==
    /\ WindowRunning("enhanced")
    /\ \E outcome \in WindowOutcomes("enhanced") :
          IF outcome = "raised" THEN WindowLeft
          ELSE /\ history' = AppendHistory(history, mon.arrived + 1)
               /\ mon' = [mon EXCEPT !.polls = @ + 1, !.arrived = @ + 1]
    /\ UNCHANGED <<dashVars, raceVars, prev_data, events, comVars, estVars>>

\* x1200_battery_logger.py lines 199-252, one pass of the loop
BatteryWindowPoll ==
    /\ WindowRunning("battery")
    /\ \E outcome \in WindowOutcomes("battery") :
          IF outcome = "raised" THEN WindowLeft
          ELSE IF outcome = "none"
          THEN \* lines 202-205: continue
               /\ mon' = [mon EXCEPT !.polls = @ + 1]
               /\ UNCHANGED history
          ELSE /\ history' = BatteryLoggerAppend(history, mon.arrived + 1)
               /\ mon' = [mon EXCEPT !.polls = @ + 1, !.arrived = @ + 1]
    /\ UNCHANGED <<dashVars, raceVars, prev_data, events, comVars, estVars>>

\* system_power_logger.py lines 183-234, one pass of the loop
SystemWindowPoll ==
    /\ WindowRunning("system")
    /\ \E outcome \in WindowOutcomes("system") :
          IF outcome = "raised" THEN WindowLeft
          ELSE /\ history' = SystemLoggerAppend(history, mon.arrived + 1)
               /\ mon' = [mon EXCEPT !.polls = @ + 1, !.arrived = @ + 1]
    /\ UNCHANGED <<dashVars, raceVars, prev_data, events, comVars, estVars>>

----------------------------------------------------------------------------
(* BypassNotifier (bypass_notifier.py).  A server is known by its url, here  *)
(* a number; times are in seconds.  last_success, a timestamp that nothing   *)
(* reads back, is left out of the server records.                            *)

\* what requests.post can come to: status 200, another status, or a
\* RequestException (lines 222-259)
PostOutcomes == {"ok", "http_error", "unreachable"}

\* lines 44-75: one entry of the configuration written by
\* load_or_create_config
CreatedServer(url, priority, enabled) ==
    [url |-> url, priority |-> priority, enabled |-> enabled,
     registration_status |-> "pending", last_error |-> "none",
     total_notifications |-> 0, success_count |-> 0]

\* lines 41-75: the three servers of a newly created configuration
CreatedServers == [i \in 1..3 |-> CreatedServer(i, i, TRUE)]

\* line 205: sorted(..., key=priority), as positions of the configured list;
\* the sort is stable
PriorityRank(servers, i) ==
    1 + Cardinality({ j \in DOMAIN servers :
                        \/ servers[j].priority < servers[i].priority
                        \/ /\ servers[j].priority = servers[i].priority
                           /\ j < i })
PriorityOrder(servers) ==
    [k \in DOMAIN servers |->
        CHOOSE i \in DOMAIN servers : PriorityRank(servers, i) = k]

\* lines 189-275: responses[url] is what the post to that server comes to.
\* The result holds the configuration with its updated counters and one
\* server_results entry per enabled server, in priority order.
NotifyBypassServers(servers, responses) ==
    LET order == PriorityOrder(servers)
        asked == SelectSeq(order, LAMBDA i : servers[i].enabled)
        ok(i) == responses[servers[i].url] = "ok"
    IN  [servers |->
            [i \in DOMAIN servers |->
                IF ~servers[i].enabled THEN servers[i]
                ELSE [servers[i] EXCEPT
                        !.total_notifications = @ + 1,
                        !.success_count = IF ok(i) THEN @ + 1 ELSE @,
                        !.last_error =
                            IF ok(i) THEN "none"
                            ELSE responses[servers[i].url]]],
         total_servers |-> Len(asked),
         successful |-> Cardinality({ k \in DOMAIN asked : ok(asked[k]) }),
         server_results |->
            [k \in DOMAIN asked |->
                [url |-> servers[asked[k]].url,
                 priority |-> servers[asked[k]].priority,
                 success |-> ok(asked[k])]]]

\* lines 277-312: entry i of server_results sets the status of entry i of the
\* configured list (lines 297-302)
AutoRegisterWithBypassServers(servers, interface_up, responses) ==
    IF ~interface_up
    THEN [servers |-> servers, returned |-> FALSE]
    ELSE LET results == NotifyBypassServers(servers, responses)
         IN  [servers |->
                [i \in DOMAIN servers |->
                    IF i \in DOMAIN results.server_results
                    THEN [results.servers[i] EXCEPT
                            !.registration_status =
                                IF results.server_results[i].success
                                THEN "active" ELSE "failed"]
                    ELSE results.servers[i]],
              returned |-> results.successful > 0]

\* the permutations of 1..n, as sequences
PriorityOrders(n) ==
    { f \in [1..n -> 1..n] : \A i, j \in 1..n : i # j => f[i] # f[j] }

\* configurations handed to a direct call of the registration: every order
\* of the priorities and every choice of the enabled flags
RegisterConfigs ==
    { [i \in 1..NumServers |-> CreatedServer(i, prio[i], enabled[i])] :
        prio \in PriorityOrders(NumServers),
        enabled \in [1..NumServers -> BOOLEAN] }

\* a direct call auto_register_with_bypass_servers() on the configuration
\* and WireGuard state drawn by InitRegister
AutoRegisterCall ==
    /\ call.fn = "auto_register_with_bypass_servers"
    /\ ~call.returned
    /\ \E responses \in [1..NumServers -> PostOutcomes] :
          \E got \in {AutoRegisterWithBypassServers(call.bypass_servers,
                                                    call.interface_up,
                                                    responses)} :
             call' = [call EXCEPT !.returned = TRUE,
                                  !.bypass_servers = got.servers,
                                  !.result = got.returned,
                                  !.responses = responses]
    /\ UNCHANGED <<dashVars, raceVars, monVars, comVars, est>>

\* line 541: time.sleep(30) between two passes of the notifier's loop
NotifierInterval == 30

\* (mutant) a power loss is reported on every call without external power
TrackBatteryRuntime_EveryCall(start, external_power, now) ==
    IF ~external_power
    THEN [start |-> Some(now),
          sent |-> <<[event_type |-> "power_lost",
                      battery_runtime_start |-> Some(now),
                      battery_runtime_seconds |-> None]>>]
    ELSE IF start # None
    THEN [start |-> None,
          sent |-> <<[event_type |-> "power_restored",
                      battery_runtime_start |-> None,
                      battery_runtime_seconds |-> Some(now - Val(start))]>>]
    ELSE [start |-> start, sent |-> <<>>]

\* lines 365-391, with the payload of send_power_event (lines 395-408):
\* battery_runtime_start after the call and the events handed to
\* notify_bypass_servers
TrackBatteryRuntime(start, external_power, now) ==
    IF ~external_power /\ start = None
    THEN [start |-> Some(now),
          sent |-> <<[event_type |-> "power_lost",
                      battery_runtime_start |-> Some(now),
                      battery_runtime_seconds |-> None]>>]
    ELSE IF external_power /\ start # None
    THEN [start |-> None,
          sent |-> <<[event_type |-> "power_restored",
                      battery_runtime_start |-> None,
                      battery_runtime_seconds |-> Some(now - Val(start))]>>]
    ELSE [start |-> start, sent |-> <<>>]

\* power_data["external_power"] as handed to track_battery_runtime; None: the
\* key is missing
PowerDataExternal == {None, Some(TRUE), Some(FALSE)}

\* line 367: power_data.get("external_power", True)
ExternalPowerOf(given) == IF given = None THEN TRUE ELSE Val(given)

\* one call track_battery_runtime(power_data) and the sleep that follows it
\* (lines 539-541); an event goes to every enabled server (line 410)
TrackBatteryRuntimeCall ==
    /\ mon.pc = "notifier"
    /\ mon.calls < MaxRuntimeCalls
    /\ \E given \in PowerDataExternal :
          \E step \in {TrackBatteryRuntime(mon.battery_runtime_start,
                                           ExternalPowerOf(given),
                                           mon.now)} :
          \E responses \in IF step.sent = <<>>
                            THEN {[i \in 1..3 |-> "ok"]}
                            ELSE [1..3 -> PostOutcomes] :
             /\ events' = events \o step.sent
             /\ mon' = [mon EXCEPT
                          !.battery_runtime_start = step.start,
                          !.bypass_servers =
                              IF step.sent = <<>> THEN @
                              ELSE NotifyBypassServers(@, responses).servers,
                          !.calls = @ + 1,
                          !.now = @ + NotifierInterval,
                          !.external_power = ExternalPowerOf(given),
                          !.previous_external_power = mon.external_power,
                          !.sent = step.sent]
    /\ UNCHANGED <<dashVars, raceVars, history, prev_data, comVars, estVars>>

----------------------------------------------------------------------------
(* AlertManager (dashboard_server.py).  alert_manager is one module-level    *)
(* instance (line 1289); check_thresholds is called by the BackgroundMonitor *)
(* thread (line 1325) and by the handler of /api/alerts (line 1803), and no  *)
(* lock guards it.  Times are in minutes.                                    *)

\* line 1197
CooldownMinutes == 5

\* lines 1202-1271: the alert types in the order check_thresholds tests them
AlertOrder ==
    <<"battery_low", "battery_critical", "cpu_temp_high", "cpu_usage_high",
      "memory_high", "power_loss">>
AlertTypes == Range(AlertOrder)

AlertCallers == {"monitor", "request"}

\* readings handed to check_thresholds
AlertSamples ==
    [battery_percentage : {15, 85}, cpu_temp : {45}, cpu_percent : {10},
     memory_percent : {40}, external_power : BOOLEAN]

\* lines 1203-1264 with the thresholds of the default configuration (lines
\* 1110-1117), all enabled
Exceeded(alert_type, data) ==
    IF alert_type = "battery_low" THEN data.battery_percentage <= 20
    ELSE IF alert_type = "battery_critical" THEN data.battery_percentage <= 10
    ELSE IF alert_type = "cpu_temp_high" THEN data.cpu_temp >= 70
    ELSE IF alert_type = "cpu_usage_high" THEN data.cpu_percent >= 80
    ELSE IF alert_type = "memory_high" THEN data.memory_percent >= 90
    ELSE ~data.external_power

\* the alert types whose _send_throttled_alert call the check will make, in
\* order
AlertsToRaise(data) == SelectSeq(AlertOrder, LAMBDA a : Exceeded(a, data))

\* lines 1275-1282: too soon after the last alert of the type
TooSoon(last_alert_time, current_time) ==
    /\ last_alert_time # None
    /\ current_time - Val(last_alert_time) < CooldownMinutes

IdleCaller == [pc |-> "idle", current_time |-> 0, pending |-> <<>>]

\* lines 1194-1200: a caller enters check_thresholds and takes the time
CheckThresholds(c) ==
    /\ mon.pc = "alerts"
    /\ thr[c].pc = "idle"
    /\ \E data \in AlertSamples :
          thr' = [thr EXCEPT ![c] = [pc |-> "checking",
                                     current_time |-> mon.now,
                                     pending |-> AlertsToRaise(data)]]
    /\ UNCHANGED <<dashVars, monVars, comVars, estVars>>

\* lines 1273-1282: the next exceeded threshold; the alert is skipped when
\* the last one of its type is too recent, otherwise send_alert is entered.
\* With no threshold left, check_thresholds returns.
ThrottleCheck(c) ==
    /\ mon.pc = "alerts"
    /\ thr[c].pc = "checking"
    /\ thr' = [thr EXCEPT ![c] =
                 IF thr[c].pending = <<>> THEN IdleCaller
                 ELSE IF TooSoon(mon.last_alert_times[Head(thr[c].pending)],
                                 thr[c].current_time)
                 THEN [@ EXCEPT !.pending = Tail(@)]
                 ELSE [@ EXCEPT !.pc = "sending"]]
    /\ UNCHANGED <<dashVars, monVars, comVars, estVars>>

\* lines 1160-1192 and 1284-1287: send_alert comes back; True after the
\* message went out, and then the time of this check becomes the type's
\* last alert time
SendAlertReturns(c) ==
    /\ mon.pc = "alerts"
    /\ thr[c].pc = "sending"
    /\ \E sent \in BOOLEAN :
          /\ sent => Len(events) < MaxAlertsSent
          /\ events' =
                IF sent
                THEN Append(events, [alert_type |-> Head(thr[c].pending),
                                     current_time |-> thr[c].current_time])
                ELSE events
          /\ mon' = IF sent
                    THEN [mon EXCEPT
                            !.last_alert_times[Head(thr[c].pending)] =
                                Some(thr[c].current_time)]
                    ELSE mon
    /\ thr' = [thr EXCEPT ![c] = [@ EXCEPT !.pc = "checking",
                                           !.pending = Tail(@)]]
    /\ UNCHANGED <<dashVars, history, prev_data, comVars, estVars>>

\* a minute passes
AlertClockTick ==
    /\ mon.pc = "alerts"
    /\ mon.now < MaxMinutes
    /\ mon' = [mon EXCEPT !.now = @ + 1]
    /\ UNCHANGED <<dashVars, raceVars, history, prev_data, events, comVars,
                   estVars>>

----------------------------------------------------------------------------
(* X1200Monitor (x1200_common.py).  Voltages are in 1/100 mV (the register  *)
(* shifted right by 4 counts 1.25 mV), percentages are the SOC register,     *)
(* 1/256 %.  A register read that fails is None.                             *)

\* lines 122 and 156: (vcell >> 4) * 1.25 / 1000.0
CommonVoltage(vcell) == (vcell \div 16) * 125

\* line 129: 4.19 V, 4.21 V, 36 % and 43 %; line 133: 2.5 V
SignatureVoltLo == 419000
SignatureVoltHi == 421000
SignatureSocLo == 36 * 256
SignatureSocHi == 43 * 256
MinBatteryVolt == 250000

\* line 133: percentage < 0.1, i.e. soc / 256 < 1 / 10
BelowTenthPercent(soc) == soc * 10 < 256

\* (mutant) detect_battery without the X1206 no-battery signature
DetectBatteryResult_NoSignature(conn, soc, vcell) ==
    IF ~conn THEN FALSE
    ELSE IF soc # None /\ vcell # None
         THEN ~(BelowTenthPercent(Val(soc))
                  \/ CommonVoltage(Val(vcell)) < MinBatteryVolt)
         ELSE FALSE

\* lines 109-149: the value detect_battery returns and stores
DetectBatteryResult(conn, soc, vcell) ==
    IF ~conn THEN FALSE
    ELSE IF soc # None /\ vcell # None
         THEN LET percentage == Val(soc)
                  voltage == CommonVoltage(Val(vcell))
              IN  IF /\ voltage >= SignatureVoltLo
                     /\ voltage <= SignatureVoltHi
                     /\ SignatureSocLo <= percentage
                     /\ percentage <= SignatureSocHi
                  THEN FALSE
                  ELSE IF BelowTenthPercent(percentage)
                            \/ voltage < MinBatteryVolt
                       THEN FALSE
                       ELSE TRUE
         ELSE FALSE

\* `not self.has_battery`: true for None and for False
NotHasBattery(hb) == hb = None \/ hb = Some(FALSE)

\* lines 151-161
GetBatteryVoltageResult(hb, vcell) ==
    IF vcell # None
    THEN IF NotHasBattery(hb) /\ CommonVoltage(Val(vcell)) < MinBatteryVolt
         THEN None
         ELSE Some(CommonVoltage(Val(vcell)))
    ELSE None

\* lines 163-173
GetBatteryPercentageResult(hb, soc) ==
    IF soc # None
    THEN IF NotHasBattery(hb) /\ BelowTenthPercent(Val(soc))
         THEN None
         ELSE soc
    ELSE None

\* lines 192-198: GPIO16 low = charging
CommonIsCharging(gpio16) ==
    IF gpio16 # None THEN Some(Val(gpio16) = 0) ELSE None

\* lines 200-216
PowerSource(gpio6) ==
    IF gpio6 = None THEN "Unknown"
    ELSE IF Val(gpio6) = 1 THEN "External USB-C" ELSE "Battery"

\* lines 240-254
StatusText(hb, percentage, is_charging, power_source) ==
    IF NotHasBattery(hb) THEN "External Power Only (No Battery)"
    ELSE IF Truthy(percentage) /\ Val(percentage) > 100 * 256
         THEN "Charging (X1200 V1.2)"
    ELSE IF is_charging = Some(TRUE) THEN "Charging"
    ELSE IF Truthy(percentage) /\ Val(percentage) < 20 * 256
         THEN "Critical - Low Battery"
    ELSE IF Truthy(percentage) /\ Val(percentage) < 50 * 256
         THEN "Battery Power"
    ELSE IF power_source = "External USB-C" THEN "External Power"
    ELSE "Good"

\* lines 221-230
DisconnectedStatus ==
    [connected |-> FALSE, has_battery |-> Some(FALSE),
     battery_voltage |-> None, battery_percentage |-> None,
     power_source |-> "Unknown", is_charging |-> None,
     status |-> "Disconnected"]

IdleStatus == [pc |-> "idle", fn |-> "none"]

\* register values on both sides of each threshold of detect_battery
ComSocEdges == {26, SignatureSocLo, SignatureSocHi}
ComVcellEdges == {2000, 3352, 3368}
ComSocReads ==
    {None} \cup {Some(e + d) : e \in ComSocEdges, d \in (0 - EdgeWidth)..EdgeWidth}
ComVcellReads ==
    {None} \cup {Some((e + d) * 16 + 15) :
                    e \in ComVcellEdges, d \in (0 - EdgeWidth)..EdgeWidth}
ComGpioReads == {None, Some(0), Some(1)}

\* lines 97-107: a read on an unconnected monitor is None
WordReads(conn, S) == IF conn THEN S ELSE {None}

\* lines 109-149, called on its own
DetectBattery ==
    /\ status.pc = "idle"
    /\ \E soc \in WordReads(connected, ComSocReads),
          vcell \in WordReads(connected, ComVcellReads) :
          \E r \in {DetectBatteryResult(connected, soc, vcell)} :
             /\ has_battery' = Some(r)
             /\ status' = [pc |-> "idle", fn |-> "detect_battery",
                           soc |-> soc, vcell |-> vcell,
                           before |-> has_battery, returned |-> r]
    /\ UNCHANGED <<dashVars, raceVars, monVars, connected, estVars>>

\* lines 163-173, called on its own: the percentage a caller is given
GetBatteryPercentage ==
    /\ status.pc = "idle"
    /\ \E soc \in WordReads(connected, ComSocReads) :
          status' = [pc |-> "idle", fn |-> "get_battery_percentage",
                     soc |-> soc,
                     returned |-> GetBatteryPercentageResult(has_battery, soc)]
    /\ UNCHANGED <<dashVars, raceVars, monVars, connected, has_battery,
                   estVars>>

\* lines 218-230: get_status on an unconnected monitor
GetStatusDisconnected ==
    /\ status.pc = "idle"
    /\ ~connected
    /\ status' = [pc |-> "idle", fn |-> "get_status",
                  returned |-> DisconnectedStatus]
    /\ UNCHANGED <<dashVars, raceVars, monVars, connected, has_battery,
                   estVars>>

\* line 233: get_status re-checks battery presence (reads SOC and VCELL)
GetStatus233 ==
    /\ status.pc = "idle"
    /\ connected
    /\ \E soc \in ComSocReads, vcell \in ComVcellReads :
          has_battery' = Some(DetectBatteryResult(connected, soc, vcell))
    /\ status' = [pc |-> "l235", fn |-> "get_status", register_reads |-> 2]
    /\ UNCHANGED <<dashVars, raceVars, monVars, connected, estVars>>

\* line 235: voltage = self.get_battery_voltage() (reads VCELL again)
GetStatus235 ==
    /\ status.pc = "l235"
    /\ \E vcell \in ComVcellReads :
          status' = [pc |-> "l236", fn |-> "get_status",
                     register_reads |-> status.register_reads + 1,
                     voltage |-> GetBatteryVoltageResult(has_battery, vcell)]
    /\ UNCHANGED <<dashVars, raceVars, monVars, connected, has_battery,
                   estVars>>

\* line 236: percentage = self.get_battery_percentage() (reads SOC again)
GetStatus236 ==
    /\ status.pc = "l236"
    /\ \E soc \in ComSocReads :
          status' = [pc |-> "l237", fn |-> "get_status",
                     register_reads |-> status.register_reads + 1,
                     voltage |-> status.voltage,
                     percentage |-> GetBatteryPercentageResult(has_battery, soc)]
    /\ UNCHANGED <<dashVars, raceVars, monVars, connected, has_battery,
                   estVars>>

\* lines 237-265
GetStatus237 ==
    /\ status.pc = "l237"
    /\ \E gpio6 \in ComGpioReads, gpio16 \in ComGpioReads :
          status' =
            [pc |-> "idle", fn |-> "get_status",
             register_reads |-> status.register_reads,
             returned |->
               [connected |-> TRUE, has_battery |-> has_battery,
                battery_voltage |-> status.voltage,
                battery_percentage |-> status.percentage,
                power_source |-> PowerSource(gpio6),
                is_charging |-> CommonIsCharging(gpio16),
                status |-> StatusText(has_battery, status.percentage,
                                      CommonIsCharging(gpio16),
                                      PowerSource(gpio6))]]
    /\ UNCHANGED <<dashVars, raceVars, monVars, connected, has_battery,
                   estVars>>

----------------------------------------------------------------------------
(* X1200RuntimeEstimator (runtime_estimator.py).  A battery reading is the   *)
(* pair of registers it was computed from: voltage = (vcell >> 4) in 1.25 mV *)
(* steps, percentage = soc in 1/256 %.  Hours are exact multiples of         *)
(* 1/HoursScale hour; power draw is in 1/10 W; a logged 'Battery %' is in    *)
(* 1/10 % as the logger writes it, None where the field does not parse.      *)

HoursScale == 1290240
\* line 27: safe_discharge_limit * 100 percent, as an SOC register value
SafeLimitSoc == 10 * 256
\* line 26 and lines 139-143: 3.0 V, 3.7 V, 4.2 V in 1.25 mV steps
MinBatteryUnits == 2400
KneeUnits == 2960
\* lines 173-181
LogWindow == 20
MinLogRows == 10

\* lines 48-70: both registers in one try block; any failure gives None
BatteryData(conn, vcell, soc) ==
    IF conn /\ vcell # None /\ soc # None
    THEN Some([voltage |-> Val(vcell) \div 16, percentage |-> Val(soc)])
    ELSE None

\* (mutant) the percentage method without the safe limit subtracted
PercentageBased_FullRuntime(bd) ==
    IF bd.percentage > SafeLimitSoc
    THEN Some(bd.percentage * (HoursScale \div 10240))
    ELSE None

\* (mutant) the percentage method without its guard
PercentageBased_Unguarded(bd) ==
    Some((bd.percentage - SafeLimitSoc) * (HoursScale \div 10240))

\* lines 129-133: (percentage - 10) / 100 * 2.5
PercentageBased(bd) ==
    IF bd.percentage > SafeLimitSoc
    THEN Some((bd.percentage - SafeLimitSoc) * (HoursScale \div 10240))
    ELSE None

\* lines 136-147.  Upper segment: min(100, (v - 3.0) / 1.2 * 100), lower
\* segment: max(0, (v - 3.0) / 0.7 * 20); then (vp - 10) / 100 * 2.5.
\* (At exactly 3.35 V the code's floating-point vp is 10.000000000000004,
\* just above its limit 10.000000000000002; the voltages sampled below
\* stay off that point.)
VoltageBased(bd) ==
    IF bd.voltage > MinBatteryUnits
    THEN IF bd.voltage >= KneeUnits
         THEN Some((Min(4800, (bd.voltage - MinBatteryUnits) * 5) - 480)
                     * (HoursScale \div 1920))
         ELSE IF bd.voltage - MinBatteryUnits > 280
              THEN Some((bd.voltage - MinBatteryUnits - 280)
                          * (HoursScale \div 1120))
              ELSE None
    ELSE None

\* (mutant) the power method without its usable-energy guard
PowerBased_NoUsableGuard(bd, watts10) ==
    IF watts10 > 0
    THEN Some(((bd.percentage - SafeLimitSoc) * (HoursScale \div 1024) * 10)
                 \div watts10)
    ELSE None

\* lines 150-155: 25.0 * (percentage / 100 - 0.1) / watts
PowerBased(bd, watts10) ==
    IF watts10 > 0 /\ bd.percentage > SafeLimitSoc
    THEN Some(((bd.percentage - SafeLimitSoc) * (HoursScale \div 1024) * 10)
                 \div watts10)
    ELSE None

\* lines 185-195: the positive drops between consecutive parseable rows
RECURSIVE DrainRates(_, _)
DrainRates(rows, i) ==
    IF i > Len(rows) THEN <<>>
    ELSE LET prev == rows[i - 1]
             curr == rows[i]
         IN  (IF /\ prev # None /\ curr # None
                 /\ Val(prev) > 0 /\ Val(curr) > 0
                 /\ Val(prev) - Val(curr) > 0
              THEN <<Val(prev) - Val(curr)>>
              ELSE <<>>) \o DrainRates(rows, i + 1)

RECURSIVE SumSeq(_)
SumSeq(q) == IF q = <<>> THEN 0 ELSE Head(q) + SumSeq(Tail(q))

\* line 178: rows[-20:] if len(rows) >= 20 else rows
RecentRows(rows) ==
    IF Len(rows) >= LogWindow
    THEN SubSeq(rows, Len(rows) - LogWindow + 1, Len(rows))
    ELSE rows

\* (mutant) the historical method without its minimum of rows
HasDrain_NoMinimum(log) ==
    /\ log.exists
    /\ DrainRates(RecentRows(log.rows), 2) # <<>>

\* lines 166-199: whether the log yields an average drain at all
HasDrain(log) ==
    /\ log.exists
    /\ Len(RecentRows(log.rows)) >= MinLogRows
    /\ DrainRates(RecentRows(log.rows), 2) # <<>>

\* lines 198-207, from the reading `current` taken at line 201:
\* (percentage - 10) / mean(drain_rates) * 5 / 3600
HistoricalFrom(log, current) ==
    IF HasDrain(log) /\ current # None
    THEN LET drains == DrainRates(RecentRows(log.rows), 2)
         IN  IF Val(current).percentage > SafeLimitSoc
             THEN Some(((Val(current).percentage - SafeLimitSoc)
                           * Len(drains) * (HoursScale \div 18432))
                         \div SumSeq(drains))
             ELSE None
    ELSE None

\* the keys the estimates dict can hold
Methods == {"percentage_based", "voltage_based", "power_based", "historical"}

MethodValue(m, bd, watts10, log, current) ==
    IF m = "percentage_based" THEN PercentageBased(bd)
    ELSE IF m = "voltage_based" THEN VoltageBased(bd)
    ELSE IF m = "power_based" THEN PowerBased(bd, watts10)
    ELSE HistoricalFrom(log, current)

\* lines 129, 145, 154: the first three methods store whatever they computed
\* under their guards; line 159: `if historical_runtime:` drops None and 0
Produced(m, v) == IF m = "historical" THEN Truthy(v) ELSE v # None

\* lines 121-162: the estimates dict
CalculateRuntimeEstimates(bd, watts10, log, current) ==
    [m \in {k \in Methods :
               Produced(k, MethodValue(k, bd, watts10, log, current))}
       |-> Val(MethodValue(m, bd, watts10, log, current))]

\* (mutant) every method weighted alike
Weight_AllEqual(m) == 3

\* lines 229-234, in tenths
Weight(m) ==
    IF m = "percentage_based" THEN 2
    ELSE IF m = "historical" THEN 5
    ELSE 3

RECURSIVE WeightedSum(_, _)
WeightedSum(estimates, ms) ==
    IF ms = {} THEN [sum |-> 0, weight |-> 0]
    ELSE LET m == CHOOSE k \in ms : TRUE
             rest == WeightedSum(estimates, ms \ {m})
         IN  IF estimates[m] > 0
             THEN [sum |-> rest.sum + estimates[m] * Weight(m),
                   weight |-> rest.weight + Weight(m)]
             ELSE rest

\* lines 225-246: the fused estimate as the fraction sum / weight of hours,
\* None when nothing contributed
FinalEstimate(estimates) ==
    LET w == WeightedSum(estimates, DOMAIN estimates)
    IN  IF w.weight > 0 THEN Some(w) ELSE None

\* the battery log as the logger leaves it: 'Battery %' falls by `drop`
\* tenths per row from `top`; rows where the gauge did not answer are "N/A"
DrainLog(n, top, drop) ==
    [exists |-> TRUE, rows |-> [i \in 1..n |-> Some(top - (i - 1) * drop)]]
GappyLog(n, top) ==
    [exists |-> TRUE,
     rows |-> [i \in 1..n |-> IF i % 2 = 0 THEN None ELSE Some(top - i)]]
NoLog == [exists |-> FALSE, rows |-> <<>>]
LogTop == 500
EstLogs ==
    {NoLog, GappyLog(LogWindow, LogTop)}
      \cup {DrainLog(n, LogTop, d) :
              n \in {MinLogRows - 1, MinLogRows, LogWindow + 1},
              d \in (0 - 1)..MaxLogDrop}

\* register reads: failed, below the safe limit (5 %) / the cutoff voltage,
\* and from the limit upwards
EstSocReads ==
    {None, Some(SafeLimitSoc \div 2)}
      \cup {Some(SafeLimitSoc + i * EstSocStride) : i \in 0..MaxEstSocIdx}
EstVcellReads ==
    {None, Some((MinBatteryUnits - EstVcellStride) * 16)}
      \cup {Some((MinBatteryUnits + j * EstVcellStride) * 16) :
               j \in 0..MaxEstVcellIdx}

\* logs whose 'Battery %' goes up and down: row i holds top - 2 * (i / 3)
\* + (i % 3), so two rises of one tenth are followed by a fall of four
MixedLog(n, top) ==
    [exists |-> TRUE,
     rows |-> [i \in 1..n |-> Some(top - 2 * (i \div 3) + (i % 3))]]
\* a log that reaches 0.0 %
EmptyingLog(n) ==
    [exists |-> TRUE, rows |-> [i \in 1..n |-> Some(Max(0, n - 2 - i))]]
HistLogs ==
    EstLogs
      \cup {DrainLog(n, LogTop, d) :
              n \in (MinLogRows - 1)..(MinLogRows + 1), d \in 1..MaxLogDrop}
      \cup {MixedLog(n, LogTop) :
              n \in {MinLogRows - 1, MinLogRows, LogWindow, LogWindow + 2}}
      \cup {EmptyingLog(n) : n \in {MinLogRows, LogWindow + 2}}
HistReadings ==
    {BatteryData(TRUE, vcell, soc) : vcell \in EstVcellReads, soc \in EstSocReads}

\* a direct call calculate_historical_runtime() with the log and the fuel
\* gauge as drawn by InitHistorical
HistoricalCall ==
    /\ call.fn = "calculate_historical_runtime"
    /\ ~call.returned
    /\ call' = [call EXCEPT !.returned = TRUE,
                            !.hours = HistoricalFrom(call.log, call.current)]
    /\ UNCHANGED <<dashVars, raceVars, monVars, comVars, est>>

\* direct calls calculate_runtime_estimates(battery_data, power_data): the
\* power draw handed in may also be zero or negative
CalcWatts == {0 - 10, 0, 25, 40, 80}
CalcBatteryData ==
    {None} \cup {bd \in HistReadings : bd # None}
\* the reading line 201 takes is asked for only when the log shows a drain
CalcCurrents(log) ==
    IF HasDrain(log)
    THEN {BatteryData(TRUE, Some(KneeUnits * 16), soc) : soc \in EstSocReads}
    ELSE {None}

\* lines 121-162 on the arguments drawn by InitCalc
CalcCall ==
    /\ call.fn = "calculate_runtime_estimates"
    /\ ~call.returned
    /\ call' = [call EXCEPT
                  !.returned = TRUE,
                  !.result = IF call.battery_data = None THEN "None"
                             ELSE "dict",
                  !.estimates =
                      IF call.battery_data = None THEN <<>>
                      ELSE CalculateRuntimeEstimates(Val(call.battery_data),
                                                     call.watts10, call.log,
                                                     call.current)]
    /\ UNCHANGED <<dashVars, raceVars, monVars, comVars, est>>

\* lines 72-119: estimated_watts, 4.0 W when the metrics cannot be read
EstWatts == {25, 40, 80}

\* lines 217-221: read the battery, estimate the power draw, give up
\* without a reading
GetRuntimeEstimate217 ==
    /\ est.pc = "idle"
    /\ \E vcell \in WordReads(connected, EstVcellReads),
          soc \in WordReads(connected, EstSocReads),
          watts10 \in EstWatts :
          \E bd \in {BatteryData(connected, vcell, soc)} :
             est' = IF bd = None
                    THEN [pc |-> "idle", fn |-> "get_runtime_estimate",
                          returned |-> "None", hardware_reads |-> 1]
                    ELSE [pc |-> "l223", fn |-> "get_runtime_estimate",
                          battery_data |-> Val(bd), watts10 |-> watts10,
                          hardware_reads |-> 1]
    /\ UNCHANGED <<dashVars, raceVars, monVars, comVars, call>>

\* lines 223-257: the four methods (the historical one reads the log and, at
\* line 201, the battery once more), the fusion and the returned record
GetRuntimeEstimate223 ==
    /\ est.pc = "l223"
    /\ \E log \in EstLogs :
          \E vcell \in IF HasDrain(log) THEN EstVcellReads ELSE {None},
             soc \in IF HasDrain(log) THEN EstSocReads ELSE {None} :
             \E estimates \in
                  {CalculateRuntimeEstimates(est.battery_data, est.watts10, log,
                                              BatteryData(connected, vcell, soc))} :
                est' = [pc |-> "idle", fn |-> "get_runtime_estimate",
                        returned |-> "record",
                        battery_data |-> est.battery_data,
                        watts10 |-> est.watts10,
                        log |-> log,
                        hardware_reads |->
                            IF HasDrain(log) THEN est.hardware_reads + 1
                            ELSE est.hardware_reads,
                        individual_estimates |-> estimates,
                        final_estimate_hours |-> FinalEstimate(estimates)]
    /\ UNCHANGED <<dashVars, raceVars, monVars, comVars, call>>

\* format_runtime_display (lines 259-277).  Hours are in 1/FmtScale hour
\* (quarter minutes); the string is its template and the numbers put in it.
FmtScale == 240
Display(text, a, b) == [text |-> text, a |-> a, b |-> b]

\* (mutant) minutes rounded to nearest instead of truncated
FormatRuntimeDisplay_Rounds(runtime_hours) ==
    IF ~Truthy(runtime_hours) \/ Val(runtime_hours) <= 0
    THEN Display("Unable to estimate", 0, 0)
    ELSE Display("{a} minutes",
                 (Val(runtime_hours) * 60 + FmtScale \div 2) \div FmtScale, 0)

\* lines 259-277
FormatRuntimeDisplay(runtime_hours) ==
    IF ~Truthy(runtime_hours) \/ Val(runtime_hours) <= 0
    THEN Display("Unable to estimate", 0, 0)
    ELSE LET h == Val(runtime_hours)
         IN  IF h < 1 * FmtScale
             THEN Display("{a} minutes", (h * 60) \div FmtScale, 0)
             ELSE IF h < 24 * FmtScale
                  THEN LET hours == h \div FmtScale
                           minutes == ((h - hours * FmtScale) * 60) \div FmtScale
                       IN  IF minutes > 0
                           THEN Display("{a}h {b}m", hours, minutes)
                           ELSE Display("{a} hours", hours, 0)
                  ELSE Display("{a} days {b} hours",
                               h \div (24 * FmtScale),
                               (h % (24 * FmtScale)) \div FmtScale)

\* runtimes handed to the formatter: none, negative, and 0 upwards in
\* steps of FmtStride / FmtScale hours
FmtInputs ==
    {None, Some(0 - FmtStride)}
      \cup {Some(i * FmtStride) : i \in 0..MaxFmtIdx}

FormatCall ==
    /\ call.fn = "format_runtime_display"
    /\ ~call.returned
    /\ call' = [call EXCEPT !.returned = TRUE,
                            !.display = FormatRuntimeDisplay(call.runtime_hours)]
    /\ UNCHANGED <<dashVars, raceVars, monVars, comVars, est>>

IdleEstimator == est = [pc |-> "idle", fn |-> "none"]

IdleCommon ==
    /\ connected = FALSE
    /\ has_battery = None
    /\ status = IdleStatus

----------------------------------------------------------------------------
(* Properties of X1200Monitor and of the runtime estimator *)

\* C8: detect_battery classifies the sample it has just read, whatever the
\* earlier classification was: no battery if 4.19 V <= voltage <= 4.21 V and
\* 36 <= percentage <= 43, else no battery if percentage < 0.1 or
\* voltage < 2.5 V, else battery present; the result is what is stored.
C8_ClassificationIsPure ==
    (/\ status.pc = "idle" /\ status.fn = "detect_battery"
     /\ connected /\ status.soc # None /\ status.vcell # None) =>
        LET mv100 == (Val(status.vcell) \div 16) * 125
            pct256 == Val(status.soc)
            expected ==
                IF /\ 419000 <= mv100 /\ mv100 <= 421000
                   /\ 36 * 256 <= pct256 /\ pct256 <= 43 * 256
                THEN FALSE
                ELSE IF pct256 * 10 < 1 * 256 \/ mv100 < 250000
                     THEN FALSE
                     ELSE TRUE
        IN  /\ status.returned = expected
            /\ has_battery = Some(expected)

\* a sample on the upper corner of the no-battery signature (4.21 V, 43 %),
\* classified right after a sample that was classified battery-present
C8_Witness ==
    /\ status.pc = "idle" /\ status.fn = "detect_battery"
    /\ connected
    /\ status.before = Some(TRUE)
    /\ status.soc = Some(43 * 256)
    /\ status.vcell # None
    /\ CommonVoltage(Val(status.vcell)) = 421000
    /\ status.returned = FALSE

\* C13: no poll produces a percentage computed with an identity factor in
\* place of the calibration correction: a percentage handed out by
\* X1200Monitor.get_battery_percentage is the calibrated one,
\* min(100, register / 256 * factor), of the register it read.
C13_NeverIdentityCorrection ==
    (/\ status.pc = "idle" /\ status.fn = "get_battery_percentage"
     /\ status.returned # None) =>
        Val(status.returned) * 1000 = CorrectedPercentage(Val(status.soc))

EstimateReturned ==
    /\ est.pc = "idle" /\ est.fn = "get_runtime_estimate"
    /\ est.returned = "record"

C15_HoursNonNegative ==
    EstimateReturned =>
        LET e == est.individual_estimates
            fused == est.final_estimate_hours
            bd == est.battery_data
        IN  /\ \A m \in DOMAIN e : e[m] >= 0
            /\ fused # None => Val(fused).sum >= 0 /\ Val(fused).weight > 0
            /\ bd.percentage - 10 * 256 < 0 =>
                  /\ "percentage_based" \notin DOMAIN e
                  /\ "power_based" \notin DOMAIN e
            /\ (bd.voltage < 2960 /\ bd.voltage - 2400 - 280 < 0) =>
                  "voltage_based" \notin DOMAIN e
            /\ DOMAIN e = {} => fused = None

\* a reading below the safe limit and below the cutoff voltage: no entries,
\* no fused value
C15_Witness ==
    /\ EstimateReturned
    /\ est.battery_data.percentage < SafeLimitSoc
    /\ est.battery_data.voltage < MinBatteryUnits
    /\ DOMAIN est.individual_estimates = {}
    /\ est.final_estimate_hours = None

HistoricalReturned ==
    call.fn = "calculate_historical_runtime" /\ call.returned
\* the rows the method looks at: the last 20 of the log
HistWindow ==
    IF Len(call.log.rows) > 20
    THEN [i \in 1..20 |-> call.log.rows[Len(call.log.rows) - 20 + i]]
    ELSE call.log.rows
\* positions of the window where both rows parse, are above zero, and the
\* percentage fell
HistDropAt == {i \in 2..Len(HistWindow) :
                 /\ HistWindow[i - 1] # None /\ HistWindow[i] # None
                 /\ Val(HistWindow[i - 1]) > 0 /\ Val(HistWindow[i]) > 0
                 /\ Val(HistWindow[i - 1]) > Val(HistWindow[i])}
RECURSIVE HistDropSum(_)
HistDropSum(I) ==
    IF I = {} THEN 0
    ELSE LET i == CHOOSE k \in I : TRUE
         IN  Val(HistWindow[i - 1]) - Val(HistWindow[i])
               + HistDropSum(I \ {i})
\* usable percentage of the reading the method takes, in 1/256 %
HistUsable ==
    IF call.current = None THEN 0 - 1
    ELSE Val(call.current).percentage - 10 * 256

\* C16: the historical method gives a value only with at least 10 rows in
\* its window; the average drop is taken over the strictly positive
\* consecutive drops only; the value is (usable percentage / average drop)
\* * 5 s in hours; there is no value without a positive drop or with usable
\* percentage <= 0.
C16_HistoricalDrainRate ==
    HistoricalReturned =>
        /\ call.hours # None <=>
              /\ call.log.exists
              /\ Len(HistWindow) >= 10
              /\ HistDropAt # {}
              /\ HistUsable > 0
        /\ call.hours # None =>
              LET k == Cardinality(HistDropAt)
                  tenths == HistDropSum(HistDropAt)
                  \* hours * HoursScale = usable/256 / (tenths/(10 k)) * 5/3600
                  exact == HistUsable * k * 70
              IN  /\ Val(call.hours) * tenths <= exact
                  /\ exact < (Val(call.hours) + 1) * tenths

\* a window of 20 rows with rises and falls and a usable reading: the value
\* is the one for the falls alone (six falls of four tenths)
C16_Witness ==
    /\ HistoricalReturned
    /\ Len(call.log.rows) > 20
    /\ Cardinality(HistDropAt) < Len(HistWindow) - 1
    /\ \E i \in 2..Len(HistWindow) :
          /\ HistWindow[i - 1] # None /\ HistWindow[i] # None
          /\ Val(HistWindow[i - 1]) < Val(HistWindow[i])
    /\ HistUsable > 0
    /\ call.hours # None

CalcReturned ==
    /\ call.fn = "calculate_runtime_estimates" /\ call.returned
    /\ call.result = "dict"

\* C17: the power-based estimate is capacity (25 Wh) * (percentage / 100 -
\* 0.1) / power draw, and there is no entry when the power draw is <= 0 or
\* the usable energy is <= 0; 15 % at 4.0 W gives 0.3125 hours.
C17_PowerBased ==
    /\ CalcReturned =>
          LET e == call.estimates
              usable == Val(call.battery_data).percentage - 10 * 256
              w == call.watts10
          IN  /\ "power_based" \in DOMAIN e <=> (w > 0 /\ usable > 0)
              /\ "power_based" \in DOMAIN e =>
                    \* hours = 25 * usable / 25600 / (w / 10)
                    /\ e["power_based"] * w <= usable * 12600
                    /\ usable * 12600 < (e["power_based"] + 1) * w
    /\ PowerBased([voltage |-> 3200, percentage |-> 15 * 256], 40)
          = Some((5 * HoursScale) \div 16)

\* 15 % at 4.0 W: the entry is 0.3125 hours
C17_Witness ==
    /\ CalcReturned
    /\ Val(call.battery_data).percentage = 15 * 256
    /\ call.watts10 = 40
    /\ "power_based" \in DOMAIN call.estimates
    /\ call.estimates["power_based"] * 16 = 5 * HoursScale

\* C18: the voltage-based estimate follows a two-segment curve: 3.0 V to
\* 3.7 V maps linearly onto 0 to 20 percent, 3.7 V to 4.2 V carries on from
\* there linearly up to 100 percent (capped at 100); the safe limit of 10 is
\* taken off and the rest scaled by 2.5 hours; there is no entry at or
\* below 3.0 V or when nothing usable is left.
C18_VoltageCurve ==
    CalcReturned =>
        LET e == call.estimates
            u == Val(call.battery_data).voltage    \* 1.25 mV steps
            \* percent * 140: 20 % at 3.7 V (u = 2960), 100 % at 4.2 V (3360)
            vp140 == IF u <= 2960 THEN (u - 2400) * 5
                     ELSE IF u <= 3360 THEN 2800 + (u - 2960) * 28
                     ELSE 14000
        IN  /\ "voltage_based" \in DOMAIN e <=> (u > 2400 /\ vp140 > 1400)
            /\ "voltage_based" \in DOMAIN e =>
                  \* hours = (vp - 10) / 100 * 2.5 = (vp140 - 1400) / 5600
                  e["voltage_based"] * 175 = (vp140 - 1400) * (HoursScale \div 32)

\* C19: the percentage-based estimate is (percentage - 10) / 100 * 2.5 hours,
\* and there is no entry when percentage <= 10.
C19_PercentageBased ==
    /\ CalcReturned =>
          LET e == call.estimates
              pct256 == Val(call.battery_data).percentage
          IN  /\ "percentage_based" \in DOMAIN e <=> pct256 > 10 * 256
              /\ "percentage_based" \in DOMAIN e =>
                    \* hours = (pct256 / 256 - 10) / 40
                    e["percentage_based"] * 8
                       = (pct256 - 10 * 256) * (HoursScale \div 1280)
    /\ PercentageBased([voltage |-> 3200, percentage |-> 10 * 256]) = None

\* a reading of 15 %: the entry is 0.125 hours
C19_Witness ==
    /\ CalcReturned
    /\ Val(call.battery_data).percentage = 15 * 256
    /\ "percentage_based" \in DOMAIN call.estimates
    /\ call.estimates["percentage_based"] * 8 = HoursScale

C5_OneReadingPerPoll ==
    (/\ est.pc = "idle" /\ est.fn = "get_runtime_estimate"
     /\ est.returned = "record") =>
        /\ est.hardware_reads = 1
        /\ est.individual_estimates =
              CalculateRuntimeEstimates(est.battery_data, est.watts10, est.log,
                                        Some(est.battery_data))

----------------------------------------------------------------------------
(* Properties of the enhanced monitor *)

ChargingEventNames == {"CHARGING_STARTED", "CHARGING_STOPPED"}
PowerChangeEventNames == {"EXTERNAL_POWER_CONNECTED", "EXTERNAL_POWER_LOST"}

\* C2: in the polling loop, the poll that first sees is_charging go from
\* false to true (external power staying present) reports CHARGING_STARTED,
\* and a following poll that sees charging unchanged does not.
C2_ChargingStartedOncePerFlip ==
    Len(history) >= 2 =>
        LET cur == history[Len(history)]
            before == history[Len(history) - 1]
        IN  /\ (/\ before.is_charging = Some(FALSE)
                 /\ cur.is_charging = Some(TRUE)
                 /\ before.has_external_power = Some(TRUE)
                 /\ cur.has_external_power = Some(TRUE))
                    => "CHARGING_STARTED" \in EventNames(events)
            /\ (before.is_charging = Some(TRUE) /\ cur.is_charging = Some(TRUE))
                    => "CHARGING_STARTED" \notin EventNames(events)

\* C6: a failed sensor read never ends the polling loop, and on a poll with
\* a missing field the level checks on that field are skipped.
C6_ReadFailureNeverAbortsLoop ==
    /\ mon.pc = "running"
    /\ Len(history) > 0 =>
          LET cur == history[Len(history)]
          IN  /\ cur.battery_percentage = None =>
                    EventNames(events) \cap {"CRITICAL_BATTERY_LEVEL",
                                             "LOW_BATTERY_WARNING"} = {}
              /\ cur.battery_voltage = None =>
                    EventNames(events) \cap {"CRITICAL_LOW_VOLTAGE",
                                             "OVER_VOLTAGE_WARNING"} = {}

DetectReturned == call.fn = "detect_critical_events" /\ call.returned
DetectHasPrev == Len(call.history) > 0
DetectPrev == call.history[Len(call.history)]
DetectSteady ==
    /\ DetectHasPrev
    /\ DetectPrev.is_charging = call.data.is_charging
    /\ DetectPrev.has_external_power = call.data.has_external_power

\* the charging and power-change events are reported only for a sample whose
\* charging (external power) state differs from the preceding sample's
TransitionEventsOnlyOnChange ==
    /\ EventNames(call.events) \cap ChargingEventNames # {} =>
          DetectHasPrev /\ DetectPrev.is_charging # call.data.is_charging
    /\ EventNames(call.events) \cap PowerChangeEventNames # {} =>
          /\ DetectHasPrev
          /\ DetectPrev.has_external_power # call.data.has_external_power

\* C3 (as claimed): charging and power events are reported only when the
\* state differs from the preceding sample's, and a sample in the same state
\* as the preceding one (also steadily on battery) yields no power or
\* charging event at all.
C3_NoPowerEventInSteadyState ==
    DetectReturned =>
        /\ TransitionEventsOnlyOnChange
        /\ DetectSteady =>
              EventNames(call.events) \cap
                  (ChargingEventNames \cup PowerChangeEventNames
                     \cup {"POWER_LOSS_DETECTED"}) = {}

\* C3 (amended): CHARGING_STARTED/STOPPED and EXTERNAL_POWER_CONNECTED/LOST
\* are reported only when the state differs from the preceding sample's and
\* never in steady state; POWER_LOSS_DETECTED is a level check, reported for
\* exactly the samples without external power, steady state included.
C3_TransitionEventsOnlyOnChange ==
    DetectReturned =>
        /\ TransitionEventsOnlyOnChange
        /\ DetectSteady =>
              EventNames(call.events) \cap
                  (ChargingEventNames \cup PowerChangeEventNames) = {}
        /\ "POWER_LOSS_DETECTED" \in EventNames(call.events)
              <=> call.data.has_external_power = Some(FALSE)

\* a sample steadily on battery, for which the detector has answered
C3_Witness ==
    /\ DetectReturned
    /\ DetectSteady
    /\ call.data.has_external_power = Some(FALSE)
    /\ "POWER_LOSS_DETECTED" \in EventNames(call.events)

\* C21 (as claimed): CRITICAL_BATTERY_LEVEL is reported whenever the
\* percentage is below 10 and LOW_BATTERY_WARNING whenever it is below 20, so
\* both are reported below 10; whatever the history holds.
C21_BothLevelsBelowTen ==
    (DetectReturned /\ call.data.battery_percentage # None) =>
        LET p == Val(call.data.battery_percentage)
        IN  /\ p < 10 * 256 =>
                 "CRITICAL_BATTERY_LEVEL" \in EventNames(call.events)
            /\ p < 20 * 256 =>
                 "LOW_BATTERY_WARNING" \in EventNames(call.events)

\* C21 (amended): CRITICAL_BATTERY_LEVEL is reported exactly when the
\* percentage is below 10, LOW_BATTERY_WARNING exactly when it is at least 10
\* and below 20 (never together with the critical one), neither when the
\* percentage is unavailable; the history, and so an earlier report of the
\* same level, makes no difference.
C21_OneLevelPerSample ==
    DetectReturned =>
        LET avail == call.data.battery_percentage # None
            p == IF avail THEN Val(call.data.battery_percentage) ELSE 0
        IN  /\ "CRITICAL_BATTERY_LEVEL" \in EventNames(call.events)
                 <=> (avail /\ p < 10 * 256)
            /\ "LOW_BATTERY_WARNING" \in EventNames(call.events)
                 <=> (avail /\ 10 * 256 <= p /\ p < 20 * 256)

\* a sample at 5 % right after a sample at 5 %: critical again, and no
\* low-battery warning
C21_Witness ==
    /\ DetectReturned
    /\ DetectHasPrev
    /\ DetectPrev.battery_percentage = Some(5 * 256)
    /\ call.data.battery_percentage = Some(5 * 256)
    /\ "CRITICAL_BATTERY_LEVEL" \in EventNames(call.events)
    /\ "LOW_BATTERY_WARNING" \notin EventNames(call.events)

LevelEventNames ==
    {"CRITICAL_BATTERY_LEVEL", "LOW_BATTERY_WARNING", "CRITICAL_LOW_VOLTAGE",
     "OVER_VOLTAGE_WARNING", "HIGH_DISCHARGE_RATE"}

\* C22 (as claimed): a call with an empty history reports nothing but
\* battery-level, voltage and discharge-rate events; no power or charging
\* event of any kind, whatever the sample's flags are.
C22_OnlyLevelEventsWithoutPrev ==
    (DetectReturned /\ ~DetectHasPrev) =>
        EventNames(call.events) \subseteq LevelEventNames

\* C22 (amended): a call with an empty history reports no CHARGING_STARTED,
\* CHARGING_STOPPED, EXTERNAL_POWER_CONNECTED or EXTERNAL_POWER_LOST, whatever
\* the sample's flags are; besides the battery-level, voltage and
\* discharge-rate events it reports POWER_LOSS_DETECTED, a level check too,
\* exactly when the sample has no external power.
C22_NoTransitionEventsWithoutPrev ==
    (DetectReturned /\ ~DetectHasPrev) =>
        /\ EventNames(call.events)
             \cap (ChargingEventNames \cup PowerChangeEventNames) = {}
        /\ EventNames(call.events)
             \subseteq LevelEventNames \cup {"POWER_LOSS_DETECTED"}
        /\ "POWER_LOSS_DETECTED" \in EventNames(call.events)
              <=> call.data.has_external_power = Some(FALSE)

\* a first sample that is charging and without external power
C22_Witness ==
    /\ DetectReturned
    /\ ~DetectHasPrev
    /\ call.data.is_charging = Some(TRUE)
    /\ call.data.has_external_power = Some(FALSE)
    /\ call.data.battery_percentage = Some(5 * 256)
    /\ EventNames(call.events)
         = {"POWER_LOSS_DETECTED", "CRITICAL_BATTERY_LEVEL"}

\* C23: whatever the history, CRITICAL_LOW_VOLTAGE is reported exactly for a
\* sample whose voltage is below 3.0 V, OVER_VOLTAGE_WARNING exactly for one
\* above 4.3 V, and HIGH_DISCHARGE_RATE exactly for one whose estimated
\* current is below -2000 mA (not at -2000 mA itself); the reported rate is
\* the current's magnitude.
C23_VoltageAndCurrentLevels ==
    DetectReturned =>
        LET names == EventNames(call.events)
            v == call.data.battery_voltage
            c == call.data.estimated_current
        IN  /\ "CRITICAL_LOW_VOLTAGE" \in names
                 <=> (v # None /\ Val(v) < 3000 * 4)
            /\ "OVER_VOLTAGE_WARNING" \in names
                 <=> (v # None /\ Val(v) > 4300 * 4)
            /\ "HIGH_DISCHARGE_RATE" \in names
                 <=> (c # None /\ Val(c) < -2000 * 8)
            /\ \A i \in DOMAIN call.events :
                 call.events[i].name = "HIGH_DISCHARGE_RATE" =>
                     call.events[i].ma = RoundedAbsMa(Val(c))

\* a sample at 2.9 V drawing 2001 mA, with an earlier sample in the history
C23_Witness ==
    /\ DetectReturned
    /\ DetectHasPrev
    /\ call.data.battery_voltage = Some(2900 * 4)
    /\ call.data.estimated_current = Some(-2001 * 8)
    /\ {"CRITICAL_LOW_VOLTAGE", "HIGH_DISCHARGE_RATE"}
         \subseteq EventNames(call.events)

----------------------------------------------------------------------------
(* Properties of the history windows                                         *)

WindowWatched == mon.pc \in {"window", "stopped"}

\* C25: in each of the three loops the window never holds more than its
\* capacity (50, 50, 20) and is exactly the most recent samples in arrival
\* order: on overflow the oldest sample is the one that leaves.
C25_WindowBoundedFifo ==
    WindowWatched =>
        LET n == Len(history)
        IN  /\ n <= WindowCap(mon.program)
            /\ n = Min(mon.arrived, WindowCap(mon.program))
            /\ \A i \in 1..n : history[i] = mon.arrived - n + i

\* the enhanced monitor's window after two samples have been evicted
C25_Witness ==
    /\ WindowWatched
    /\ mon.program = "enhanced"
    /\ mon.arrived = HistoryCap + 2
    /\ Len(history) = HistoryCap
    /\ history[1] = 3

----------------------------------------------------------------------------
(* Properties of the bypass notifier                                         *)

NotifierWatched == mon.pc = "notifier"
EventTypes(evs) == [i \in DOMAIN evs |-> evs[i].event_type]

RegisterReturned ==
    call.fn = "auto_register_with_bypass_servers" /\ call.returned

\* C27 (as claimed): after a registration, every configured server is
\* 'active' exactly if the request sent to it succeeded and 'failed' exactly
\* if a request to it was made and failed, and a disabled server keeps the
\* status it had; for every order of priorities and every choice of enabled
\* flags.
C27_StatusOfSameServer ==
    (RegisterReturned /\ call.interface_up) =>
        \A i \in DOMAIN call.bypass_servers :
            LET before == call.given[i]
                after == call.bypass_servers[i]
                succeeded == call.responses[before.url] = "ok"
            IN  /\ after.registration_status = "active"
                     <=> (before.enabled /\ succeeded)
                /\ after.registration_status = "failed"
                     <=> (before.enabled /\ ~succeeded)
                /\ ~before.enabled =>
                     after.registration_status = before.registration_status

----------------------------------------------------------------------------
(* Properties of the alert manager                                           *)

AlertsWatched == mon.pc = "alerts"

\* C29 (as claimed): two alerts of one type are never sent less than the
\* cooldown of 5 minutes apart, and a type's last alert time is the time of a
\* check whose alert of that type was sent.
C29_CooldownBetweenAlerts ==
    AlertsWatched =>
        /\ \A i, j \in DOMAIN events :
             (i < j /\ events[i].alert_type = events[j].alert_type) =>
                 events[j].current_time - events[i].current_time
                     >= CooldownMinutes
        /\ \A a \in AlertTypes :
             mon.last_alert_times[a] # None =>
                 \E i \in DOMAIN events :
                     /\ events[i].alert_type = a
                     /\ Some(events[i].current_time) = mon.last_alert_times[a]

----------------------------------------------------------------------------
(* Properties of the stabilisation (dashboard specification) *)

Stabilised ==
    /\ out.returned = "dict"
    /\ out.has_external_power
    /\ out.corrected # None

\* C1 (as claimed): with external power present the new stable value is never
\* more than 1.0 above the previous stable value: s <= p + 1.0.
C1_RiseAtMostOne ==
    (Stabilised /\ out.previous # None) =>
        Val(out.battery_percentage) <= Val(out.previous) + 1 * PctScale

\* C1 (amended): with external power present the new stable value is never
\* more than 2.0 above the previous stable value: s <= p + 2.0.
C1_RiseAtMostTwo ==
    (Stabilised /\ out.previous # None) =>
        Val(out.battery_percentage) <= Val(out.previous) + 2 * PctScale

\* a call that passed through a rise of more than 1.0
C1_Witness ==
    /\ Stabilised
    /\ out.previous # None
    /\ Val(out.battery_percentage) > Val(out.previous) + 1 * PctScale

\* C9: without external power the call returns the corrected percentage
\* unchanged and leaves the remembered stable value cleared, whatever the
\* previous stable value was.
C9_BatteryPowerPassThrough ==
    (out.returned = "dict" /\ ~out.has_external_power) =>
        /\ out.battery_percentage = out.corrected
        /\ last_stable_battery = None

\* a call on battery power that found a remembered value and a reading
C9_Witness ==
    /\ out.returned = "dict"
    /\ ~out.has_external_power
    /\ out.previous # None
    /\ out.corrected # None
    /\ Val(out.corrected) # Val(out.previous)

\* C10: with external power present the call returns the corrected value when
\* nothing is remembered, previous + 1.0 when corrected - previous > 2.0,
\* previous when corrected - previous < -1.0 (50.0 then 47.0 gives 50.0), the
\* corrected value otherwise; the returned value is then the remembered one.
C10_StabiliseCases ==
    /\ Stabilised =>
          LET c == Val(out.corrected)
              s == out.battery_percentage
              p == out.previous
          IN  /\ s # None
              /\ p = None => Val(s) = c
              /\ (p # None /\ c - Val(p) > 2 * PctScale) =>
                     Val(s) = Val(p) + 1 * PctScale
              /\ (p # None /\ c - Val(p) < -(1 * PctScale)) =>
                     Val(s) = Val(p)
              /\ (p # None /\ c - Val(p) <= 2 * PctScale
                            /\ c - Val(p) >= -(1 * PctScale)) => Val(s) = c
              /\ last_stable_battery = s
    /\ StablePercentage(Some(47 * PctScale), TRUE, Some(50 * PctScale))
           = Some(50 * PctScale)

\* a call that held the previous value against a drop of more than 1.0
C10_Witness ==
    /\ Stabilised
    /\ out.previous # None
    /\ Val(out.corrected) < Val(out.previous) - 1 * PctScale
    /\ out.battery_percentage = out.previous

\* C11: the remembered stable value persists from poll to poll while external
\* power is present (each poll stabilises against what the preceding poll
\* stored, and stores its own result), it is None after exactly the polls
\* that saw external power lost, and no poll that sees external power
\* present clears it.
C11_MemoryClearedOnlyOnPowerLoss ==
    out.returned = "dict" =>
        /\ ~out.has_external_power => last_stable_battery = None
        /\ (out.has_external_power /\ out.previous # None)
              => last_stable_battery # None
        /\ (out.has_external_power /\ out.corrected # None)
              => /\ out.battery_percentage =
                        StablePercentage(out.corrected, TRUE, out.previous)
                 /\ last_stable_battery = out.battery_percentage

\* C12: for every raw percentage in [0, 100] the corrected percentage is
\* min(100.0, raw * 1.327): 75.0 gives 99.525 (no clamp), 90.0 gives 119.43
\* clamped to 100.0; it always lies in [0, 100].
C12_CorrectedWithinRange ==
    /\ (/\ call.fn \in CorrectFns /\ call.returned
        /\ call.soc >= 0 /\ call.soc <= 100 * 256) =>
          /\ call.battery_percentage =
                IF call.soc * 1327 > 100 * 256000 THEN 100 * 256000
                ELSE call.soc * 1327
          /\ call.battery_percentage >= 0
          /\ call.battery_percentage <= 100 * 256000
    /\ CorrectedPercentage(75 * 256) = 99525 * 256
    /\ ReadPowerDataPercentage(75 * 256) = 99525 * 256
    /\ 90 * 256 * 1327 = 11943 * 2560
    /\ CorrectedPercentage(90 * 256) = 100 * 256000
    /\ ReadPowerDataPercentage(90 * 256) = 100 * 256000

\* raw 90.0 has been corrected by the dashboard poll's formula and clamped
C12_Witness ==
    /\ call.fn = "get_x1200_safe_data"
    /\ call.returned
    /\ call.soc = 90 * 256
    /\ call.battery_percentage = 100 * PctScale

\* C28: whenever a poll reports a battery percentage, stabilised or passed
\* through, it lies in [0, 100], and so does the remembered stable value; in
\* particular after a step of 1.0 above the previous stable value.
C28_StableWithinRange ==
    /\ (out.returned = "dict" /\ out.battery_percentage # None) =>
          /\ Val(out.battery_percentage) >= 0
          /\ Val(out.battery_percentage) <= 100 * PctScale
    /\ last_stable_battery # None =>
          /\ Val(last_stable_battery) >= 0
          /\ Val(last_stable_battery) <= 100 * PctScale

\* a reading clamped to 100.0, answered by a step of 1.0 from a stable value
\* above 97.0
C28_Witness ==
    /\ Stabilised
    /\ out.previous # None
    /\ out.corrected = Some(100 * PctScale)
    /\ Val(out.previous) > 97 * PctScale
    /\ Val(out.battery_percentage) = Val(out.previous) + 1 * PctScale

\* C30: a poll with external power and a reading, following a poll with
\* external power and a reading, reports a stable percentage at most 1.0 below
\* the one the preceding poll reported, however far the corrected reading
\* fell.
C30_FallAtMostOne ==
    (Stabilised /\ out.previous # None) =>
        Val(out.battery_percentage) >= Val(out.previous) - 1 * PctScale

\* a corrected reading more than 1.0 below the previous stable value, held
C30_Witness ==
    /\ Stabilised
    /\ out.previous # None
    /\ Val(out.corrected) < Val(out.previous) - 1 * PctScale
    /\ out.battery_percentage = out.previous

\* C7: when the voltage or the percentage read is unavailable, no battery is
\* reported and the record carries the unavailable field as none, never as
\* the number zero.
C7_UnavailableNotZero ==
    out.returned = "dict" =>
        /\ (out.voltage_read = None \/ out.corrected = None) =>
               ~out.has_battery_installed
        /\ out.voltage_read = None => out.battery_voltage = None
        /\ out.corrected = None => out.battery_percentage = None

----------------------------------------------------------------------------
InitDash ==
    /\ last_stable_battery = None
    /\ out = NoCall

InitOther ==
    /\ thr = <<>>
    /\ history = <<>>
    /\ prev_data = None
    /\ events = <<>>
    /\ mon = [pc |-> "off"]
    /\ IdleCommon
    /\ IdleEstimator
    /\ call = NoCallYet

Init == InitDash /\ InitOther

Next ==
    \/ GetX1200SafeData
    \/ GetX1200SafeDataRaises

Spec == Init /\ [][Next]_vars

InitStream ==
    /\ InitDash
    /\ thr = [t \in Pollers |-> IdlePoller]
    /\ history = <<>>
    /\ prev_data = None
    /\ events = <<>>
    /\ mon = [pc |-> "off"]
    /\ IdleCommon
    /\ IdleEstimator
    /\ call = NoCallYet

NextStream ==
    \E t \in Pollers :
        \/ PollerRead(t)
        \/ PollerReadRaises(t)
        \/ Poller547(t)
        \/ Poller549(t)
        \/ Poller550(t)
        \/ Poller551(t)
        \/ Poller552(t)
        \/ Poller557(t)
        \/ Poller561(t)

SpecStream == InitStream /\ [][NextStream]_vars

\* the enhanced monitor's loop, from the entry of main()'s while loop
InitMonitor ==
    /\ InitDash
    /\ thr = <<>>
    /\ history = <<>>
    /\ prev_data = None
    /\ events = <<>>
    /\ mon = [pc |-> "running", polls |-> 0, now |-> 0]
    /\ IdleCommon
    /\ IdleEstimator
    /\ call = NoCallYet

NextMonitor == MonitorPoll

SpecMonitor == InitMonitor /\ [][NextMonitor]_vars

\* direct calls of the detector
NextDetect == DetectCall \/ DetectCallAgain

InitDetect ==
    /\ InitDash
    /\ thr = <<>>
    /\ history = <<>>
    /\ prev_data = None
    /\ events = <<>>
    /\ mon = [pc |-> "off"]
    /\ IdleCommon
    /\ IdleEstimator
    /\ \E data \in DetectSamples,
          hist \in SeqsUpTo(DetectHistorySamples, MaxDetectHistory) :
          call = [fn |-> "detect_critical_events", data |-> data,
                  history |-> hist, returned |-> FALSE, events |-> <<>>,
                  given |-> [data |-> data, history |-> hist],
                  again |-> FALSE, events_again |-> <<>>]

SpecDetect == InitDetect /\ [][NextDetect]_vars

\* direct applications of the calibration correction
InitCorrect ==
    /\ InitDash
    /\ thr = <<>>
    /\ history = <<>>
    /\ prev_data = None
    /\ events = <<>>
    /\ mon = [pc |-> "off"]
    /\ IdleCommon
    /\ IdleEstimator
    /\ \E fn \in CorrectFns, soc \in CorrectSocRegs :
          call = [fn |-> fn, soc |-> soc, returned |-> FALSE,
                  battery_percentage |-> 0]

NextCorrect == CorrectCall

SpecCorrect == InitCorrect /\ [][NextCorrect]_vars

\* X1200Monitor after __init__ (lines 13-34): connect() either fails on all
\* buses, or succeeds and runs detect_battery once (line 66)
InitCommon ==
    /\ InitDash
    /\ thr = <<>>
    /\ history = <<>>
    /\ prev_data = None
    /\ events = <<>>
    /\ mon = [pc |-> "off"]
    /\ IdleEstimator
    /\ call = NoCallYet
    /\ connected \in BOOLEAN
    /\ status = IdleStatus
    /\ IF connected
       THEN \E soc \in ComSocReads, vcell \in ComVcellReads :
               has_battery = Some(DetectBatteryResult(TRUE, soc, vcell))
       ELSE has_battery = None

NextCommon ==
    \/ DetectBattery
    \/ GetBatteryPercentage
    \/ GetStatusDisconnected
    \/ GetStatus233
    \/ GetStatus235
    \/ GetStatus236
    \/ GetStatus237

SpecCommon == InitCommon /\ [][NextCommon]_vars

\* direct calls of the historical drain-rate method
InitHistorical ==
    /\ InitDash
    /\ thr = <<>>
    /\ history = <<>>
    /\ prev_data = None
    /\ events = <<>>
    /\ mon = [pc |-> "off"]
    /\ IdleCommon
    /\ IdleEstimator
    /\ \E log \in HistLogs, current \in HistReadings :
          call = [fn |-> "calculate_historical_runtime", log |-> log,
                  current |-> current, returned |-> FALSE, hours |-> None]

NextHistorical == HistoricalCall

SpecHistorical == InitHistorical /\ [][NextHistorical]_vars

\* direct calls of calculate_runtime_estimates
InitCalc ==
    /\ InitDash
    /\ thr = <<>>
    /\ history = <<>>
    /\ prev_data = None
    /\ events = <<>>
    /\ mon = [pc |-> "off"]
    /\ IdleCommon
    /\ IdleEstimator
    /\ \E bd \in CalcBatteryData, watts10 \in CalcWatts, log \in EstLogs :
          \E current \in CalcCurrents(log) :
             call = [fn |-> "calculate_runtime_estimates",
                     battery_data |-> bd, watts10 |-> watts10, log |-> log,
                     current |-> current, returned |-> FALSE,
                     result |-> "pending", estimates |-> <<>>]

NextCalc == CalcCall

SpecCalc == InitCalc /\ [][NextCalc]_vars

\* direct calls of format_runtime_display
InitFormat ==
    /\ InitDash
    /\ thr = <<>>
    /\ history = <<>>
    /\ prev_data = None
    /\ events = <<>>
    /\ mon = [pc |-> "off"]
    /\ IdleCommon
    /\ IdleEstimator
    /\ \E h \in FmtInputs :
          call = [fn |-> "format_runtime_display", runtime_hours |-> h,
                  returned |-> FALSE, display |-> Display("", 0, 0)]

NextFormat == FormatCall

SpecFormat == InitFormat /\ [][NextFormat]_vars

\* the three logging loops, each from the entry of its while loop with
\* history = []
InitWindow ==
    /\ InitDash
    /\ thr = <<>>
    /\ history = <<>>
    /\ prev_data = None
    /\ events = <<>>
    /\ \E program \in WindowPrograms :
          mon = [pc |-> "window", program |-> program, polls |-> 0,
                 arrived |-> 0]
    /\ IdleCommon
    /\ IdleEstimator
    /\ call = NoCallYet

NextWindow == EnhancedWindowPoll \/ BatteryWindowPoll \/ SystemWindowPoll

SpecWindow == InitWindow /\ [][NextWindow]_vars

\* direct calls of the registration
InitRegister ==
    /\ InitDash
    /\ thr = <<>>
    /\ history = <<>>
    /\ prev_data = None
    /\ events = <<>>
    /\ mon = [pc |-> "off"]
    /\ IdleCommon
    /\ IdleEstimator
    /\ \E servers \in RegisterConfigs, interface_up \in BOOLEAN :
          call = [fn |-> "auto_register_with_bypass_servers",
                  bypass_servers |-> servers, given |-> servers,
                  interface_up |-> interface_up, returned |-> FALSE,
                  result |-> FALSE,
                  responses |-> [i \in 1..NumServers |-> "ok"]]

NextRegister == AutoRegisterCall

SpecRegister == InitRegister /\ [][NextRegister]_vars

\* BypassNotifier after __init__ (lines 23-27) with a newly created
\* configuration, external power having been present so far
InitRuntime ==
    /\ InitDash
    /\ thr = <<>>
    /\ history = <<>>
    /\ prev_data = None
    /\ events = <<>>
    /\ mon = [pc |-> "notifier", battery_runtime_start |-> None,
              bypass_servers |-> CreatedServers, calls |-> 0, now |-> 0,
              external_power |-> TRUE, previous_external_power |-> TRUE,
              sent |-> <<>>]
    /\ IdleCommon
    /\ IdleEstimator
    /\ call = NoCallYet

NextRuntime == TrackBatteryRuntimeCall

SpecRuntime == InitRuntime /\ [][NextRuntime]_vars

\* AlertManager after __init__ with the default configuration (lines
\* 1104-1120: no alert sent yet) and a working Pushover client
InitAlerts ==
    /\ InitDash
    /\ thr = [c \in AlertCallers |-> IdleCaller]
    /\ history = <<>>
    /\ prev_data = None
    /\ events = <<>>
    /\ mon = [pc |-> "alerts", now |-> 0,
              last_alert_times |-> [a \in AlertTypes |-> None]]
    /\ IdleCommon
    /\ IdleEstimator
    /\ call = NoCallYet

NextAlerts ==
    \/ \E c \in AlertCallers : CheckThresholds(c)
    \/ \E c \in AlertCallers : ThrottleCheck(c)
    \/ \E c \in AlertCallers : SendAlertReturns(c)
    \/ AlertClockTick

SpecAlerts == InitAlerts /\ [][NextAlerts]_vars

\* X1200RuntimeEstimator after __init__ (lines 15-29)
InitEstimator ==
    /\ InitDash
    /\ thr = <<>>
    /\ history = <<>>
    /\ prev_data = None
    /\ events = <<>>
    /\ mon = [pc |-> "off"]
    /\ has_battery = None
    /\ status = IdleStatus
    /\ IdleEstimator
    /\ call = NoCallYet
    /\ connected \in BOOLEAN

NextEstimator ==
    \/ GetRuntimeEstimate217
    \/ GetRuntimeEstimate223

SpecEstimator == InitEstimator /\ [][NextEstimator]_vars
====
